---------------------------- MODULE Spec2Model ----------------------------
(***************************************************************************)
(* A model of the gerber-viewer renderer (src/src/renderer.rs) and of the  *)
(* demo application that drives it (src/demo/src/main.rs).                 *)
(*                                                                         *)
(* Numbers.  The program computes in f32/f64.  The model computes in       *)
(* integers and draws every input from values on which the program's       *)
(* arithmetic is exact: shape-space coordinates and extents are even, so   *)
(* "/ 2.0" is exact, and a rotation is a direction (c, s, n) with          *)
(* c*c + s*s = n*n (cos = c/n, sin = s/n) used with a uniform scale that n *)
(* divides, so the placement matrix has integer entries.  The direction    *)
(* (3, 4, 5) stands for a rotation that is not a multiple of 90 degrees.   *)
(*                                                                         *)
(* Screen shapes.  Every call on the egui painter is recorded as one       *)
(* record of the same shape: op, points, extent, closed, indices, color,   *)
(* text.                                                                   *)
(***************************************************************************)
EXTENDS Integers, Sequences, FiniteSets, TLC

VARIABLES
    renderer,       \* the GerberRenderer under construction/use, or NoRenderer
    painter,        \* the shapes the last paint_layer call added to the painter
    rendered,       \* how many primitives' render calls returned in that call
    panicked,       \* TRUE once a panic has unwound the program
    screen_pos,     \* the last gerber_to_screen_coordinates query and its result
    placement,      \* the GerberTransform that GerberRenderer::new was given
    demos,          \* DemoApp.demos: kind -> Demo
    instances,      \* DemoApp.instances: kind -> GerberViewerInstance or NoInstance
    focussed_demo_kind, \* DemoApp.focussed_demo_kind
    frame,          \* what the last DemoApp::update did, per instance window
    parse_failure,  \* the parse that failed: its source text and the call it failed in
    handled         \* what the last DemoApp::update did with each demo's reparse request

vars == <<renderer, painter, rendered, panicked, screen_pos, placement,
          demos, instances, focussed_demo_kind, frame, parse_failure, handled>>

libVars == <<renderer, painter, rendered, screen_pos, placement>>
appVars == <<demos, instances, focussed_demo_kind, frame, parse_failure, handled>>

-----------------------------------------------------------------------------
(* Small arithmetic.                                                       *)

Abs(x) == IF x < 0 THEN -x ELSE x
Min2(x, y) == IF x <= y THEN x ELSE y
Max2(x, y) == IF x >= y THEN x ELSE y

\* x / 2.0 on the even values the model uses
Half(x) == x \div 2

\* the square root, on the perfect squares the model uses
Sqrt(n) == CHOOSE r \in 0..n : r * r = n

RECURSIVE SeqMin(_), SeqMax(_)
SeqMin(s) == IF Len(s) = 1 THEN s[1] ELSE Min2(s[1], SeqMin(Tail(s)))
SeqMax(s) == IF Len(s) = 1 THEN s[1] ELSE Max2(s[1], SeqMax(Tail(s)))

Range(s) == {s[i] : i \in 1..Len(s)}

-----------------------------------------------------------------------------
(* Points, vectors and the 3x3 homogeneous affine matrix                   *)
(*     | a  b  tx |                                                        *)
(*     | c  d  ty |                                                        *)
(*     | 0  0  1  |                                                        *)

VecAdd(p, q) == <<p[1] + q[1], p[2] + q[2]>>
VecSub(p, q) == <<p[1] - q[1], p[2] - q[2]>>
VecScale(p, k) == <<p[1] * k, p[2] * k>>

Mat(a, b, c, d, tx, ty) == [a |-> a, b |-> b, c |-> c, d |-> d, tx |-> tx, ty |-> ty]

IdentityMatrix == Mat(1, 0, 0, 1, 0, 0)

\* A * B: the matrix that applies B first and A second
MatMul(A, B) ==
    Mat(A.a * B.a + A.b * B.c,
        A.a * B.b + A.b * B.d,
        A.c * B.a + A.d * B.c,
        A.c * B.b + A.d * B.d,
        A.a * B.tx + A.b * B.ty + A.tx,
        A.c * B.tx + A.d * B.ty + A.ty)

\* Matrix3Pos2Ext::transform_pos2: the matrix applied to a point
TransformPos2(M, p) ==
    <<M.a * p[1] + M.b * p[2] + M.tx, M.c * p[1] + M.d * p[2] + M.ty>>

\* Matrix3ScalingExt::get_scaling_factors: the lengths of the column vectors
GetScalingFactors(M) ==
    <<Sqrt(M.a * M.a + M.c * M.c), Sqrt(M.b * M.b + M.d * M.d)>>

\* Matrix3TransformExt::is_90_or_270_rotation: the linear part swaps X and Y
Is90Or270Rotation(M) == M.a = 0 /\ M.d = 0 /\ M.b # 0 /\ M.c # 0

\* Matrix3TransformExt::is_axis_aligned: axis-aligned rectangles stay axis-aligned
IsAxisAligned(M) == (M.b = 0 /\ M.c = 0) \/ (M.a = 0 /\ M.d = 0)

\* GerberTransform: rotation (a direction), mirroring, origin, offset, scale
GerberTransform(rotation, mirroring, origin, offset, scale) ==
    [rotation |-> rotation, mirroring |-> mirroring, origin |-> origin,
     offset |-> offset, scale |-> scale]

Direction(c, s, n) == [c |-> c, s |-> s, n |-> n]

\* GerberTransform::to_matrix: translate by -origin, mirror, rotate, translate
\* by +origin, translate by offset, scale uniformly
ToMatrix(t) ==
    LET k  == t.scale \div t.rotation.n
        mx == IF t.mirroring[1] THEN -1 ELSE 1
        my == IF t.mirroring[2] THEN -1 ELSE 1
        a  == k * t.rotation.c * mx
        b  == (0 - k) * t.rotation.s * my
        c  == k * t.rotation.s * mx
        d  == k * t.rotation.c * my
    IN  Mat(a, b, c, d,
            t.scale * (t.origin[1] + t.offset[1]) - (a * t.origin[1] + b * t.origin[2]),
            t.scale * (t.origin[2] + t.offset[2]) - (c * t.origin[1] + d * t.origin[2]))

\* ViewState: translation (screen-space vector) and uniform scale
ViewState(translation, scale) == [translation |-> translation, scale |-> scale]

-----------------------------------------------------------------------------
(* The primitive model (crate::layer) and the colours.                     *)

Color(name, n) == <<name, n>>

WHITE == Color("WHITE", 0)
BLACK == Color("BLACK", 0)
RED == Color("RED", 0)
GREEN == Color("GREEN", 0)
YELLOW == Color("YELLOW", 0)
TRANSPARENT == Color("TRANSPARENT", 0)

\* color::generate_pastel_color: a colour that depends on the index alone
GeneratePastelColor(index) == Color("pastel", index)

\* Exposure::to_color: Add keeps the colour, Subtract recolours
ToColor(exposure, color) == IF exposure = "Add" THEN color ELSE BLACK

Circle(center, diameter, exposure) ==
    [kind |-> "Circle", center |-> center, diameter |-> diameter, exposure |-> exposure]

Rectangle(origin, width, height, exposure) ==
    [kind |-> "Rectangle", origin |-> origin, width |-> width, height |-> height,
     exposure |-> exposure]

Line(start, end, width, exposure) ==
    [kind |-> "Line", start |-> start, end |-> end, width |-> width, exposure |-> exposure]

\* angles in quarter turns; direction "CCW" or "CW"
ArcPrimitive(center, radius, start_angle, end_angle, direction, width, exposure) ==
    [kind |-> "Arc", center |-> center, radius |-> radius, start_angle |-> start_angle,
     end_angle |-> end_angle, direction |-> direction, width |-> width,
     exposure |-> exposure]

NoTessellation == [vertices |-> <<>>, indices |-> <<>>, present |-> FALSE]

Tessellation(vertices, indices) ==
    [vertices |-> vertices, indices |-> indices, present |-> TRUE]

PolygonGeometry(relative_vertices, is_convex, tessellation) ==
    [relative_vertices |-> relative_vertices, is_convex |-> is_convex,
     tessellation |-> tessellation]

Polygon(center, exposure, geometry) ==
    [kind |-> "Polygon", center |-> center, exposure |-> exposure, geometry |-> geometry]

\* GerberLayer: the primitives in z-order and the image transform's matrix
GerberLayer(image_transform, primitives) ==
    [image_transform |-> image_transform, primitives |-> primitives]

-----------------------------------------------------------------------------
(* The arc generator (ArcGerberPrimitive::generate_points, is_full_circle).*)

MinArcSegments == 2

Cos4(q) == CASE q % 4 = 0 -> 1 [] q % 4 = 1 -> 0 [] q % 4 = 2 -> -1 [] OTHER -> 0
Sin4(q) == CASE q % 4 = 0 -> 0 [] q % 4 = 1 -> 1 [] q % 4 = 2 -> 0 [] OTHER -> -1

\* the swept angle in quarter turns, signed by the winding direction
SweepAngle(arc) ==
    IF arc.direction = "CCW" THEN arc.end_angle - arc.start_angle
    ELSE 0 - (arc.end_angle - arc.start_angle)

\* start and end coincide modulo a full turn
IsFullCircle(arc) == (arc.end_angle - arc.start_angle) % 4 = 0

ArcSteps(arc) == Max2(MinArcSegments, Abs(SweepAngle(arc)))

\* steps + 1 points, relative to the centre, from the start angle on
GeneratePoints(arc) ==
    LET steps == ArcSteps(arc)
        step  == SweepAngle(arc) \div steps
    IN  [i \in 1..(steps + 1) |->
            <<arc.radius * Cos4(arc.start_angle + (i - 1) * step),
              arc.radius * Sin4(arc.start_angle + (i - 1) * step)>>]

-----------------------------------------------------------------------------
(* Bounding boxes (crate::geometry::BoundingBox, WithBoundingBox).         *)

BoundingBox(min, max) == [min |-> min, max |-> max]

EmptyBoundingBox == BoundingBox(<<0, 0>>, <<0, 0>>)

\* BoundingBox::from_points: the minimal box over the points
FromPoints(points) ==
    IF Len(points) = 0 THEN EmptyBoundingBox
    ELSE LET xs == [i \in 1..Len(points) |-> points[i][1]]
             ys == [i \in 1..Len(points) |-> points[i][2]]
         IN  BoundingBox(<<SeqMin(xs), SeqMin(ys)>>, <<SeqMax(xs), SeqMax(ys)>>)

\* BoundingBox::vertices: the four corners, from the minimum corner on
Vertices(bbox) ==
    << <<bbox.min[1], bbox.min[2]>>, <<bbox.max[1], bbox.min[2]>>,
       <<bbox.max[1], bbox.max[2]>>, <<bbox.min[1], bbox.max[2]>> >>

\* Matrix3 transform_point on a shape-space point
TransformPoint(M, p) ==
    <<M.a * p[1] + M.b * p[2] + M.tx, M.c * p[1] + M.d * p[2] + M.ty>>

\* BoundingBox::apply_transform_matrix: the box enclosing the four transformed corners
ApplyTransformMatrix(bbox, M) ==
    LET x1 == M.a * bbox.min[1]  y1 == M.b * bbox.min[2]
        x2 == M.a * bbox.max[1]  y2 == M.b * bbox.max[2]
        u1 == M.c * bbox.min[1]  v1 == M.d * bbox.min[2]
        u2 == M.c * bbox.max[1]  v2 == M.d * bbox.max[2]
    IN  BoundingBox(<<Min2(x1, x2) + Min2(y1, y2) + M.tx, Min2(u1, u2) + Min2(v1, v2) + M.ty>>,
                    <<Max2(x1, x2) + Max2(y1, y2) + M.tx, Max2(u1, u2) + Max2(v1, v2) + M.ty>>)

\* WithBoundingBox::bounding_box of a primitive, in shape space
PrimitiveBoundingBox(p) ==
    CASE p.kind = "Circle" ->
            BoundingBox(<<p.center[1] - Half(p.diameter), p.center[2] - Half(p.diameter)>>,
                        <<p.center[1] + Half(p.diameter), p.center[2] + Half(p.diameter)>>)
      [] p.kind = "Rectangle" ->
            BoundingBox(p.origin, <<p.origin[1] + p.width, p.origin[2] + p.height>>)
      [] p.kind = "Line" ->
            BoundingBox(<<Min2(p.start[1], p.end[1]) - Half(p.width),
                          Min2(p.start[2], p.end[2]) - Half(p.width)>>,
                        <<Max2(p.start[1], p.end[1]) + Half(p.width),
                          Max2(p.start[2], p.end[2]) + Half(p.width)>>)
      [] p.kind = "Arc" ->
            BoundingBox(<<p.center[1] - p.radius - Half(p.width),
                          p.center[2] - p.radius - Half(p.width)>>,
                        <<p.center[1] + p.radius + Half(p.width),
                          p.center[2] + p.radius + Half(p.width)>>)
      [] OTHER ->
            LET box == FromPoints(p.geometry.relative_vertices)
            IN  BoundingBox(VecAdd(p.center, box.min), VecAdd(p.center, box.max))

\* the layer's document bounding box: the box over its primitives' boxes
RECURSIVE CornerPoints(_)
CornerPoints(primitives) ==
    IF Len(primitives) = 0 THEN <<>>
    ELSE LET box == PrimitiveBoundingBox(Head(primitives))
         IN  <<box.min, box.max>> \o CornerPoints(Tail(primitives))

LayerBoundingBox(layer) == FromPoints(CornerPoints(layer.primitives))

-----------------------------------------------------------------------------
(* The renderer (src/src/renderer.rs).                                     *)

None == <<>>
Some(x) == <<x>>

\* Option<usize>::None for the shape number
NoNumber == -1

\* one call on the egui painter
Shape(op, points, extent, closed, indices, color, text) ==
    [op |-> op, points |-> points, extent |-> extent, closed |-> closed,
     indices |-> indices, color |-> color, text |-> text]

\* what a render call did: the shapes it added, and whether it panicked
Rendered(shapes) == [shapes |-> shapes, panic |-> FALSE]
Panic(shapes) == [shapes |-> shapes, panic |-> TRUE]

RenderConfiguration(unique, numbering, vertices, bboxes) ==
    [use_unique_shape_colors |-> unique, use_shape_numbering |-> numbering,
     use_vertex_numbering |-> vertices, use_shape_bboxes |-> bboxes]

\* RenderConfiguration::default
DefaultRenderConfiguration == RenderConfiguration(FALSE, FALSE, FALSE, FALSE)

\* view.translation + transform_matrix.transform_pos2(position) * view.scale
ViewMap(view, transform_matrix, position) ==
    VecAdd(view.translation, VecScale(TransformPos2(transform_matrix, position), view.scale))

\* the draw_bbox! macro, once bounding_box() has returned bbox_rect
BboxPath(bbox_rect, color, view, transform_matrix) ==
    LET center == <<Half(bbox_rect.min[1] + bbox_rect.max[1]),
                    Half(bbox_rect.min[2] + bbox_rect.max[2])>>
        screen_center == <<center[1], -(center[2])>>
        hw == Half(bbox_rect.max[1] - bbox_rect.min[1])
        hh == Half(bbox_rect.max[2] - bbox_rect.min[2])
        corners == << <<-hw, -hh>>, <<hw, -hh>>, <<hw, hh>>, <<-hw, hh>> >>
        points == [i \in 1..4 |->
                      ViewMap(view, transform_matrix, VecAdd(screen_center, corners[i]))]
    IN  << Shape("path", points, <<1>>, TRUE, <<>>, color, NoNumber) >>

\* a faulty DrawBbox: the outline is drawn with the shape numbers as well
DrawBboxNumbered(primitive, configuration, color, view, transform_matrix) ==
    IF configuration.use_shape_bboxes \/ configuration.use_shape_numbering
    THEN BboxPath(PrimitiveBoundingBox(primitive), color, view, transform_matrix)
    ELSE <<>>

\* the draw_bbox! macro
DrawBbox(primitive, configuration, color, view, transform_matrix) ==
    IF configuration.use_shape_bboxes
    THEN BboxPath(PrimitiveBoundingBox(primitive), color, view, transform_matrix)
    ELSE <<>>

Transformed(position) == [transformed |-> TRUE, position |-> position]
Untransformed(position) == [transformed |-> FALSE, position |-> position]

\* draw_shape_number
DrawShapeNumber(view, transform_matrix, position, shape_number) ==
    IF shape_number = NoNumber THEN <<>>
    ELSE LET pos == IF position.transformed THEN position.position
                    ELSE ViewMap(view, transform_matrix, position.position)
         IN  << Shape("text", <<pos>>, <<16>>, FALSE, <<>>, GREEN, shape_number) >>

\* a faulty CircleRender: the centre goes into the matrix with the document's Y
CircleRenderUnflipped(self, view, transform_matrix, transform_scaling, base, shape_number, configuration) ==
    LET color == ToColor(self.exposure, base)
        center == ViewMap(view, transform_matrix, self.center)
        radius == Half(self.diameter * transform_scaling[1]) * view.scale
    IN  Rendered(<< Shape("circle", <<center>>, <<radius>>, FALSE, <<>>, color, NoNumber) >>
                 \o DrawBbox(self, configuration, color, view, transform_matrix)
                 \o DrawShapeNumber(view, transform_matrix, Transformed(center), shape_number))

\* a faulty CircleRender: the scaled diameter is used as the radius
CircleRenderDiameter(self, view, transform_matrix, transform_scaling, base, shape_number, configuration) ==
    LET color == ToColor(self.exposure, base)
        center == ViewMap(view, transform_matrix, <<self.center[1], -(self.center[2])>>)
        radius == self.diameter * transform_scaling[1] * view.scale
    IN  Rendered(<< Shape("circle", <<center>>, <<radius>>, FALSE, <<>>, color, NoNumber) >>
                 \o DrawBbox(self, configuration, color, view, transform_matrix)
                 \o DrawShapeNumber(view, transform_matrix, Transformed(center), shape_number))

\* a faulty CircleRender: a circle of exposure Subtract is left out
CircleRenderAddOnly(self, view, transform_matrix, transform_scaling, base, shape_number, configuration) ==
    LET color == ToColor(self.exposure, base)
        center == ViewMap(view, transform_matrix, <<self.center[1], -(self.center[2])>>)
        radius == Half(self.diameter * transform_scaling[1]) * view.scale
    IN  IF self.exposure = "Add"
        THEN Rendered(<< Shape("circle", <<center>>, <<radius>>, FALSE, <<>>, color, NoNumber) >>
                      \o DrawBbox(self, configuration, color, view, transform_matrix)
                      \o DrawShapeNumber(view, transform_matrix, Transformed(center),
                                         shape_number))
        ELSE Rendered(<<>>)

\* <CircleGerberPrimitive as Renderable>::render
CircleRender(self, view, transform_matrix, transform_scaling, base, shape_number, configuration) ==
    LET color == ToColor(self.exposure, base)
        screen_center == <<self.center[1], -(self.center[2])>>
        center == ViewMap(view, transform_matrix, screen_center)
        diameter == self.diameter * transform_scaling[1]
        radius == Half(diameter) * view.scale
    IN  Rendered(<< Shape("circle", <<center>>, <<radius>>, FALSE, <<>>, color, NoNumber) >>
                 \o DrawBbox(self, configuration, color, view, transform_matrix)
                 \o DrawShapeNumber(view, transform_matrix, Transformed(center), shape_number))

\* a faulty RectangleRender: the fast path keeps width and height as stored
RectangleRenderUnswapped(self, view, transform_matrix, transform_scaling, base, shape_number, configuration) ==
    LET color == ToColor(self.exposure, base)
        screen_center == <<self.origin[1] + Half(self.width),
                           -(self.origin[2] + Half(self.height))>>
        center == ViewMap(view, transform_matrix, screen_center)
        size == VecScale(<<self.width * transform_scaling[1],
                           self.height * transform_scaling[2]>>, view.scale)
        top_left == VecSub(center, <<Half(size[1]), Half(size[2])>>)
        hw == Half(self.width)
        hh == Half(self.height)
        corners == << <<-hw, -hh>>, <<hw, -hh>>, <<hw, hh>>, <<-hw, hh>> >>
        screen_corners == [i \in 1..4 |->
                              ViewMap(view, transform_matrix, VecAdd(screen_center, corners[i]))]
        fill == IF IsAxisAligned(transform_matrix)
                THEN Shape("rect", <<top_left>>, size, FALSE, <<>>, color, NoNumber)
                ELSE Shape("convex_polygon", screen_corners, <<>>, FALSE, <<>>, color, NoNumber)
    IN  Rendered(<<fill>>
                 \o DrawBbox(self, configuration, color, view, transform_matrix)
                 \o DrawShapeNumber(view, transform_matrix, Transformed(center), shape_number))

\* <RectangleGerberPrimitive as Renderable>::render
RectangleRender(self, view, transform_matrix, transform_scaling, base, shape_number, configuration) ==
    LET color == ToColor(self.exposure, base)
        screen_center == <<self.origin[1] + Half(self.width),
                           -(self.origin[2] + Half(self.height))>>
        center == ViewMap(view, transform_matrix, screen_center)
        is_axis_aligned == IsAxisAligned(transform_matrix)
        should_swap == Is90Or270Rotation(transform_matrix)
        width == (IF should_swap THEN self.height ELSE self.width) * transform_scaling[1]
        height == (IF should_swap THEN self.width ELSE self.height) * transform_scaling[2]
        size == VecScale(<<width, height>>, view.scale)
        top_left == VecSub(center, <<Half(size[1]), Half(size[2])>>)
        hw == Half(self.width)
        hh == Half(self.height)
        corners == << <<-hw, -hh>>, <<hw, -hh>>, <<hw, hh>>, <<-hw, hh>> >>
        screen_corners == [i \in 1..4 |->
                              ViewMap(view, transform_matrix, VecAdd(screen_center, corners[i]))]
        fill == IF is_axis_aligned
                THEN Shape("rect", <<top_left>>, size, FALSE, <<>>, color, NoNumber)
                ELSE Shape("convex_polygon", screen_corners, <<>>, FALSE, <<>>, color, NoNumber)
    IN  Rendered(<<fill>>
                 \o DrawBbox(self, configuration, color, view, transform_matrix)
                 \o DrawShapeNumber(view, transform_matrix, Transformed(center), shape_number))

\* <LineGerberPrimitive as Renderable>::render
LineRender(self, view, transform_matrix, transform_scaling, base, shape_number, configuration) ==
    LET color == ToColor(self.exposure, base)
        start_position == <<self.start[1], -(self.start[2])>>
        end_position == <<self.end[1], -(self.end[2])>>
        transformed_start_position == ViewMap(view, transform_matrix, start_position)
        transformed_end_position == ViewMap(view, transform_matrix, end_position)
        radius == Half(self.width) * view.scale
        sum == VecAdd(transformed_start_position, transformed_end_position)
        screen_center == <<Half(sum[1]), Half(sum[2])>>
    IN  Rendered(<< Shape("line_segment",
                          <<transformed_start_position, transformed_end_position>>,
                          <<self.width * view.scale>>, FALSE, <<>>, color, NoNumber),
                    Shape("circle", <<transformed_start_position>>, <<radius>>, FALSE, <<>>,
                          color, NoNumber),
                    Shape("circle", <<transformed_end_position>>, <<radius>>, FALSE, <<>>,
                          color, NoNumber) >>
                 \o DrawBbox(self, configuration, color, view, transform_matrix)
                 \o (IF shape_number # NoNumber
                     THEN DrawShapeNumber(view, transform_matrix, Transformed(screen_center),
                                          shape_number)
                     ELSE <<>>))

\* a faulty ArcPath: the number is anchored on points[steps], one past the end
ArcPathPastEnd(self, points, view, transform_matrix, color, shape_number, configuration) ==
    LET steps == Len(points)
        at == steps
    IN  IF at >= steps THEN Panic(<<>>)
        ELSE Rendered(<< Shape("path", points, <<self.width * view.scale>>,
                               IsFullCircle(self), <<>>, color, NoNumber) >>
                      \o DrawBbox(self, configuration, color, view, transform_matrix)
                      \o DrawShapeNumber(view, transform_matrix, Transformed(points[at + 1]),
                                         shape_number))

\* a faulty ArcPath: the path of a full circle gets its first point once more
ArcPathClosing(self, points, view, transform_matrix, color, shape_number, configuration) ==
    LET steps == Len(points)
        at == steps \div 2
    IN  IF at >= steps THEN Panic(<<>>)
        ELSE Rendered(<< Shape("path",
                               IF IsFullCircle(self) THEN Append(points, points[1]) ELSE points,
                               <<self.width * view.scale>>,
                               IsFullCircle(self), <<>>, color, NoNumber) >>
                      \o DrawBbox(self, configuration, color, view, transform_matrix)
                      \o DrawShapeNumber(view, transform_matrix, Transformed(points[at + 1]),
                                         shape_number))

\* <ArcGerberPrimitive as Renderable>::render, once the points are collected
ArcPath(self, points, view, transform_matrix, color, shape_number, configuration) ==
    LET steps == Len(points)
        at == steps \div 2
    IN  IF at >= steps THEN Panic(<<>>)
        ELSE Rendered(<< Shape("path", points, <<self.width * view.scale>>,
                               IsFullCircle(self), <<>>, color, NoNumber) >>
                      \o DrawBbox(self, configuration, color, view, transform_matrix)
                      \o DrawShapeNumber(view, transform_matrix, Transformed(points[at + 1]),
                                         shape_number))

\* the screen points of an arc: generate_points().iter().map(..).collect()
ArcScreenPoints(screen_center, generated, view, transform_matrix) ==
    [i \in 1..Len(generated) |->
        LET local == <<generated[i][1], -(generated[i][2])>>
        IN  ViewMap(view, transform_matrix, VecAdd(screen_center, local))]

\* <ArcGerberPrimitive as Renderable>::render
ArcRender(self, view, transform_matrix, transform_scaling, base, shape_number, configuration) ==
    ArcPath(self,
            ArcScreenPoints(<<self.center[1], -(self.center[2])>>, GeneratePoints(self),
                            view, transform_matrix),
            view, transform_matrix, ToColor(self.exposure, base), shape_number, configuration)

\* the screen positions of a polygon's vertices, relative to its centre
PolygonScreenVertices(screen_center, relative, view, transform_matrix) ==
    [i \in 1..Len(relative) |->
        LET local == <<relative[i][1], -(relative[i][2])>>
        IN  ViewMap(view, transform_matrix, VecAdd(screen_center, local))]

\* the vertex numbers of a polygon
VertexNumbers(debug_vertices) ==
    [i \in 1..Len(debug_vertices) |->
        Shape("text", <<debug_vertices[i]>>, <<10>>, FALSE, <<>>, RED, i - 1)]

\* a faulty PolygonRender: the tessellation of a non-convex polygon is unwrapped
PolygonRenderUnwrapping(self, view, transform_matrix, transform_scaling, base, shape_number, configuration) ==
    LET color == ToColor(self.exposure, base)
        screen_center == <<self.center[1], -(self.center[2])>>
    IN  IF ~self.geometry.is_convex /\ ~self.geometry.tessellation.present
        THEN Panic(<<>>)
        ELSE Rendered((IF self.geometry.is_convex
                       THEN << Shape("convex_polygon",
                                     PolygonScreenVertices(screen_center,
                                                           self.geometry.relative_vertices,
                                                           view, transform_matrix),
                                     <<>>, FALSE, <<>>, color, NoNumber) >>
                       ELSE << Shape("mesh",
                                     PolygonScreenVertices(screen_center,
                                                           self.geometry.tessellation.vertices,
                                                           view, transform_matrix),
                                     <<>>, FALSE, self.geometry.tessellation.indices, color,
                                     NoNumber) >>)
                      \o (IF configuration.use_vertex_numbering
                          THEN VertexNumbers(PolygonScreenVertices(screen_center,
                                                 self.geometry.relative_vertices,
                                                 view, transform_matrix))
                          ELSE <<>>)
                      \o DrawBbox(self, configuration, color, view, transform_matrix)
                      \o DrawShapeNumber(view, transform_matrix, Untransformed(screen_center),
                                         shape_number))

\* <PolygonGerberPrimitive as Renderable>::render
PolygonRender(self, view, transform_matrix, transform_scaling, base, shape_number, configuration) ==
    LET color == ToColor(self.exposure, base)
        screen_center == <<self.center[1], -(self.center[2])>>
    IN  Rendered((IF self.geometry.is_convex
                  THEN << Shape("convex_polygon",
                                PolygonScreenVertices(screen_center,
                                                      self.geometry.relative_vertices,
                                                      view, transform_matrix),
                                <<>>, FALSE, <<>>, color, NoNumber) >>
                  ELSE IF self.geometry.tessellation.present
                  THEN << Shape("mesh",
                                PolygonScreenVertices(screen_center,
                                                      self.geometry.tessellation.vertices,
                                                      view, transform_matrix),
                                <<>>, FALSE, self.geometry.tessellation.indices, color,
                                NoNumber) >>
                  ELSE <<>>)
                 \o (IF configuration.use_vertex_numbering
                     THEN VertexNumbers(PolygonScreenVertices(screen_center,
                                                              self.geometry.relative_vertices,
                                                              view, transform_matrix))
                     ELSE <<>>)
                 \o DrawBbox(self, configuration, color, view, transform_matrix)
                 \o DrawShapeNumber(view, transform_matrix, Untransformed(screen_center),
                                    shape_number))

\* the values a render call derives from transform_matrix itself, the cached
\* transform_scaling being handed in: is_axis_aligned() in every rectangle's
\* call, is_90_or_270_rotation() in the calls that take the fast path
DerivedInRender(primitive, transform_matrix) ==
    IF primitive.kind = "Rectangle"
    THEN IF IsAxisAligned(transform_matrix)
         THEN {"is_axis_aligned", "is_90_or_270_rotation"}
         ELSE {"is_axis_aligned"}
    ELSE {}

\* the values GerberRenderer::new derives from the composed matrix and caches
DerivedInNew == {"get_scaling_factors"}

\* the match on the primitive kind in paint_layer
RenderPrimitive(primitive, view, transform_matrix, transform_scaling, color, shape_number, configuration) ==
    CASE primitive.kind = "Circle" ->
            CircleRender(primitive, view, transform_matrix, transform_scaling, color,
                         shape_number, configuration)
      [] primitive.kind = "Rectangle" ->
            RectangleRender(primitive, view, transform_matrix, transform_scaling, color,
                            shape_number, configuration)
      [] primitive.kind = "Line" ->
            LineRender(primitive, view, transform_matrix, transform_scaling, color,
                       shape_number, configuration)
      [] primitive.kind = "Arc" ->
            ArcRender(primitive, view, transform_matrix, transform_scaling, color,
                      shape_number, configuration)
      [] OTHER ->
            PolygonRender(primitive, view, transform_matrix, transform_scaling, color,
                          shape_number, configuration)

\* GerberRenderer::new
NewGerberRenderer(configuration, view, transform, layer) ==
    LET render_transform_matrix == ToMatrix(transform)
        image_transform_matrix == layer.image_transform
        transform_matrix == MatMul(image_transform_matrix, render_transform_matrix)
        transform_scaling == GetScalingFactors(transform_matrix)
    IN  [configuration |-> configuration, view |-> view, layer |-> layer,
         transform_matrix |-> transform_matrix, transform_scaling |-> transform_scaling]

\* GerberRenderer::gerber_to_screen_coordinates
GerberToScreenCoordinates(self, position) ==
    LET pos == <<position[1], -(position[2])>>
    IN  ViewMap(self.view, self.transform_matrix, pos)

\* what paint_layer has done when one primitive's render call is over: the
\* shapes it added, then the rest of the loop unless the call panicked
Painted(position, out, rest) ==
    LET added == [i \in 1..Len(out.shapes) |-> [shape |-> position, draw |-> out.shapes[i]]]
    IN  IF out.panic THEN [shapes |-> added, rendered |-> 0, panic |-> TRUE]
        ELSE [shapes |-> added \o rest.shapes, rendered |-> 1 + rest.rendered,
              panic |-> rest.panic]

\* the body of the loop of paint_layer for the primitive at a position, index
\* being what enumerate() yields for it
PaintPrimitive(self, base_color, index, primitive) ==
    RenderPrimitive(primitive, self.view, self.transform_matrix, self.transform_scaling,
                    IF self.configuration.use_unique_shape_colors
                    THEN GeneratePastelColor(index) ELSE base_color,
                    IF self.configuration.use_shape_numbering THEN index ELSE NoNumber,
                    self.configuration)

\* the loop of paint_layer over the primitives at the positions order[k + 1 ..],
\* k being the index that enumerate() yields
RECURSIVE PaintLoop(_, _, _, _)
PaintLoop(self, base_color, order, k) ==
    IF k >= Len(order) THEN [shapes |-> <<>>, rendered |-> 0, panic |-> FALSE]
    ELSE Painted(order[k + 1],
                 PaintPrimitive(self, base_color, k, self.layer.primitives[order[k + 1] + 1]),
                 PaintLoop(self, base_color, order, k + 1))

\* a faulty PaintLayer: the primitives are walked from the last to the first
PaintLayerReversed(self, base_color) ==
    PaintLoop(self, base_color,
              [i \in 1..Len(self.layer.primitives) |-> Len(self.layer.primitives) - i], 0)

\* GerberRenderer::paint_layer: primitives().iter().enumerate()
PaintLayer(self, base_color) ==
    PaintLoop(self, base_color, [i \in 1..Len(self.layer.primitives) |-> i - 1], 0)

-----------------------------------------------------------------------------
(* The inputs of the renderer: configurations, view states, placement      *)
(* transforms and layers.                                                  *)

Configurations ==
    {RenderConfiguration(u, n, v, b) : u \in BOOLEAN, n \in BOOLEAN, v \in BOOLEAN, b \in BOOLEAN}

DefaultViewState == ViewState(<<0, 0>>, 1)

ViewStates == {DefaultViewState, ViewState(<<10, -20>>, 2), ViewState(<<-6, 4>>, 3)}

IdentityTransform == GerberTransform(Direction(1, 0, 1), <<FALSE, FALSE>>, <<0, 0>>, <<0, 0>>, 1)

Placements ==
    {IdentityTransform,
     GerberTransform(Direction(1, 0, 1), <<FALSE, FALSE>>, <<0, 0>>, <<0, 0>>, 2),
     GerberTransform(Direction(0, 1, 1), <<FALSE, FALSE>>, <<2, 4>>, <<-2, 6>>, 2),
     GerberTransform(Direction(1, 0, 1), <<TRUE, FALSE>>, <<4, 0>>, <<0, 0>>, 1),
     GerberTransform(Direction(-1, 0, 1), <<FALSE, TRUE>>, <<0, 2>>, <<2, 0>>, 3),
     GerberTransform(Direction(0, -1, 1), <<TRUE, FALSE>>, <<0, 0>>, <<2, 2>>, 1),
     GerberTransform(Direction(3, 4, 5), <<FALSE, FALSE>>, <<2, 2>>, <<0, 0>>, 5)}

\* the identity, a mirroring with an offset, and a scaling that differs between
\* the two axes
ImageTransforms == {IdentityMatrix, Mat(-1, 0, 0, 1, 6, 0), Mat(2, 0, 0, 1, 0, 0)}

Square == << <<-2, -2>>, <<2, -2>>, <<2, 2>>, <<-2, 2>> >>
Dart == << <<-4, -4>>, <<0, -2>>, <<4, -4>>, <<0, 4>> >>

PrimitiveLists ==
    { << Circle(<<0, 0>>, 10, "Add") >>,
      << Circle(<<4, 6>>, 4, "Subtract"), Rectangle(<<2, 4>>, 6, 2, "Add"),
         Line(<<0, 0>>, <<4, 2>>, 2, "Add") >>,
      << ArcPrimitive(<<2, 2>>, 4, 0, 2, "CCW", 2, "Add"),
         Polygon(<<2, 2>>, "Add", PolygonGeometry(Square, TRUE, NoTessellation)),
         Polygon(<<6, -2>>, "Subtract",
                 PolygonGeometry(Dart, FALSE, Tessellation(Dart, <<0, 1, 3, 1, 2, 3>>))) >>,
      << Circle(<<2, 2>>, 0, "Add"), Line(<<2, 2>>, <<2, 2>>, 0, "Add"),
         ArcPrimitive(<<4, 2>>, 0, 1, 1, "CW", 0, "Add"),
         Polygon(<<0, 2>>, "Add", PolygonGeometry(<<>>, FALSE, NoTessellation)),
         Circle(<<4, 6>>, 4, "Add") >>,
      << ArcPrimitive(<<0, 4>>, 2, 0, 4, "CW", 2, "Subtract"),
         Polygon(<<2, 2>>, "Add", PolygonGeometry(Dart, FALSE, NoTessellation)),
         Rectangle(<<-2, 0>>, 2, 4, "Subtract"),
         Line(<<-2, 2>>, <<2, 4>>, 4, "Subtract") >> }

Layers == {GerberLayer(m, ps) : m \in ImageTransforms, ps \in PrimitiveLists}

\* the sum of two squares is a square: the length of the vector is an integer
IsSquare(n) == \E r \in 0..n : r * r = n

\* the layers whose composed matrix under a placement has integer scale factors
LayersUnder(transform) ==
    {layer \in Layers :
        LET M == MatMul(layer.image_transform, ToMatrix(transform))
        IN  IsSquare(M.a * M.a + M.c * M.c) /\ IsSquare(M.b * M.b + M.d * M.d)}

BaseColors == {WHITE, YELLOW}

Positions == {<<0, 0>>, <<4, 6>>}

-----------------------------------------------------------------------------
(* The renderer as a library: a caller constructs a GerberRenderer, paints  *)
(* the layer with it and converts positions with it.                        *)

NoQuery == [asked |-> FALSE, position |-> <<0, 0>>, result |-> <<0, 0>>]

\* the renderer's callers below leave the demo application alone
AppIdle == UNCHANGED appVars

\* GerberRenderer::new(configuration, view, transform, layer)
New(configuration, view, transform, layer) ==
    /\ ~panicked
    /\ renderer = None
    /\ renderer' = Some(NewGerberRenderer(configuration, view, transform, layer))
    /\ placement' = transform
    /\ painter' = <<>>
    /\ rendered' = 0
    /\ screen_pos' = NoQuery
    /\ UNCHANGED panicked
    /\ AppIdle

\* what the caller is left with when paint_layer is over
PaintDone(out) ==
    /\ painter' = out.shapes
    /\ rendered' = out.rendered
    /\ panicked' = out.panic

\* renderer.paint_layer(painter, base_color)
Paint(base_color) ==
    /\ ~panicked
    /\ renderer # None
    /\ PaintDone(PaintLayer(renderer[1], base_color))
    /\ UNCHANGED <<renderer, placement, screen_pos>>
    /\ AppIdle

\* the renderer goes out of scope at the end of the caller's frame
Drop ==
    /\ ~panicked
    /\ renderer # None
    /\ renderer' = None
    /\ placement' = IdentityTransform
    /\ painter' = <<>>
    /\ rendered' = 0
    /\ screen_pos' = NoQuery
    /\ UNCHANGED panicked
    /\ AppIdle

\* renderer.gerber_to_screen_coordinates(position)
Convert(position) ==
    /\ ~panicked
    /\ renderer # None
    /\ screen_pos' = [asked |-> TRUE, position |-> position,
                      result |-> GerberToScreenCoordinates(renderer[1], position)]
    /\ UNCHANGED <<renderer, placement, painter, rendered, panicked>>
    /\ AppIdle

-----------------------------------------------------------------------------
(* The demo application (src/demo/src/main.rs): settings, documents and     *)
(* the view state.                                                          *)

Kinds == {"Primary", "Playground"}
NoKind == "None"

\* Settings; zoom_factor is the fraction zoom_num / zoom_den, the rotation speed
\* is in quarter turns per unit of frame_delta
Settings(unique, vertices, numbering, bboxes, zoom_num, zoom_den, speed, rotation, mirroring, center_offset, design_offset, default_scale) ==
    [use_unique_shape_colors |-> unique, use_vertex_numbering |-> vertices,
     use_shape_numbering |-> numbering, use_shape_bboxes |-> bboxes,
     zoom_num |-> zoom_num, zoom_den |-> zoom_den,
     rotation_speed |-> speed, initial_rotation |-> rotation, mirroring |-> mirroring,
     center_offset |-> center_offset, design_offset |-> design_offset,
     default_scale |-> default_scale]

\* Settings::default
DefaultSettings ==
    Settings(TRUE, FALSE, FALSE, FALSE, 1, 1, 0, Direction(1, 0, 1), <<FALSE, FALSE>>,
             <<0, 0>>, <<0, 0>>, 1)

\* Settings::primary_demo_settings: zoom 0.5, an animated rotation that starts
\* off the axes, a centre offset, a design offset and a scale above 1
PrimaryDemoSettings ==
    Settings(TRUE, FALSE, FALSE, FALSE, 1, 2, 2, Direction(3, 4, 5), <<FALSE, FALSE>>,
             <<15, 20>>, <<-5, -10>>, 5)

InitialSettings(kind) == IF kind = "Primary" THEN PrimaryDemoSettings ELSE DefaultSettings

InitialSource(kind) == IF kind = "Primary" THEN "demo.gbr" ELSE "playground.gbr"

\* what the user can turn a demo's source text into
EditedSources == {"edited.gbr", "malformed.gbr"}

\* gerber_parser::parse and GerberLayer::new: the layer of a source text, or a
\* parse error
ParseSource(source) ==
    CASE source = "demo.gbr" ->
            [ok |-> TRUE,
             layer |-> GerberLayer(Mat(-1, 0, 0, 1, 6, 0),
                                   << Circle(<<4, 6>>, 4, "Add"),
                                      Rectangle(<<2, 4>>, 6, 2, "Subtract") >>)]
      [] source = "playground.gbr" ->
            [ok |-> TRUE,
             layer |-> GerberLayer(IdentityMatrix,
                                   << Line(<<0, 0>>, <<4, 2>>, 2, "Add"),
                                      Polygon(<<2, 2>>, "Add",
                                              PolygonGeometry(Square, TRUE, NoTessellation)) >>)]
      [] source = "edited.gbr" ->
            [ok |-> TRUE,
             layer |-> GerberLayer(IdentityMatrix,
                                   << Polygon(<<6, -2>>, "Add",
                                              PolygonGeometry(Dart, FALSE,
                                                  Tessellation(Dart, <<0, 1, 3, 1, 2, 3>>))),
                                      ArcPrimitive(<<2, 2>>, 4, 0, 2, "CCW", 2, "Add") >>)]
      [] OTHER -> [ok |-> FALSE, layer |-> GerberLayer(IdentityMatrix, <<>>)]

\* GerberViewerInstance::build_layer: parse(reader).unwrap(), GerberLayer::new
BuildLayer(source) ==
    LET doc == ParseSource(source)
    IN  [panic |-> ~doc.ok, layer |-> doc.layer]

\* egui Rect: the viewport of a window
Rect(min, size) == [min |-> min, size |-> size]

\* the central panel of each window: the default size, and a window resized
Viewport(kind) ==
    IF kind = "Primary" THEN Rect(<<0, 0>>, <<800, 800>>) ELSE Rect(<<0, 0>>, <<400, 200>>)

\* ViewState::gerber_to_screen_coords
GerberToScreenCoords(view, p) ==
    VecAdd(view.translation, VecScale(<<p[1], -(p[2])>>, view.scale))

\* ViewState::fit_view: centre the box in the viewport, at zoom_factor of its size
ViewStateFitView(view, viewport, bbox, zoom_num, zoom_den) ==
    LET w == bbox.max[1] - bbox.min[1]
        h == bbox.max[2] - bbox.min[2]
        scale == IF w = 0 \/ h = 0 THEN 1
                 ELSE (Min2(viewport.size[1] \div w, viewport.size[2] \div h) * zoom_num)
                          \div zoom_den
        center == <<Half(bbox.min[1] + bbox.max[1]), Half(bbox.min[2] + bbox.max[2])>>
        middle == <<viewport.min[1] + Half(viewport.size[1]),
                    viewport.min[2] + Half(viewport.size[2])>>
    IN  ViewState(<<middle[1] - center[1] * scale, middle[2] + center[2] * scale>>, scale)

\* UiState: the screen positions of the origin and of the viewport's centre
UiState(origin_screen_pos, center_screen_pos) ==
    [origin_screen_pos |-> origin_screen_pos, center_screen_pos |-> center_screen_pos]

DefaultUiState == UiState(<<0, 0>>, <<0, 0>>)

\* UiState::update: pan by the drag, zoom by the scroll, note the positions
UiStateUpdate(view, viewport, drag, zoom) ==
    LET panned == ViewState(VecAdd(view.translation, drag), view.scale * zoom)
    IN  [view_state |-> panned,
         ui_state |-> UiState(panned.translation,
                              <<viewport.min[1] + Half(viewport.size[1]),
                                viewport.min[2] + Half(viewport.size[2])>>)]

-----------------------------------------------------------------------------
(* GerberViewerInstance.                                                    *)

Instance(settings, gerber_layer, renderer_configuration, view_state, ui_state, needs_view_fitting, transform) ==
    [settings |-> settings, gerber_layer |-> gerber_layer,
     renderer_configuration |-> renderer_configuration, view_state |-> view_state,
     ui_state |-> ui_state, needs_view_fitting |-> needs_view_fitting,
     transform |-> transform]

\* Demo
Demo(kind, source, initial_settings, reparse_requested) ==
    [kind |-> kind, source |-> source, initial_settings |-> initial_settings,
     reparse_requested |-> reparse_requested]

\* GerberViewerInstance::new
NewInstance(demo) ==
    LET settings == demo.initial_settings
        built == BuildLayer(demo.source)
        renderer_config ==
            RenderConfiguration(settings.use_unique_shape_colors, settings.use_shape_numbering,
                                settings.use_vertex_numbering, settings.use_shape_bboxes)
        origin == VecSub(settings.center_offset, settings.design_offset)
        transform == GerberTransform(settings.initial_rotation, settings.mirroring, origin,
                                     settings.design_offset, settings.default_scale)
    IN  [panic |-> built.panic,
         instance |-> Instance(settings, built.layer, renderer_config, DefaultViewState,
                               DefaultUiState, TRUE, transform)]

\* a faulty Reparse: the view and the rotation start over as in a new instance
ReparseRestarting(self, source) ==
    LET built == BuildLayer(source)
    IN  [panic |-> built.panic,
         instance |-> [self EXCEPT !.gerber_layer = built.layer,
                                   !.needs_view_fitting = TRUE,
                                   !.view_state = DefaultViewState,
                                   !.transform.rotation = self.settings.initial_rotation]]

\* GerberViewerInstance::reparse
Reparse(self, source) ==
    LET built == BuildLayer(source)
    IN  [panic |-> built.panic,
         instance |-> [self EXCEPT !.gerber_layer = built.layer,
                                   !.needs_view_fitting = TRUE]]

\* a faulty FitViewBox: the view is fitted and needs_view_fitting stays set
FitViewBoxRefitting(self, viewport, matrix, layer_bbox) ==
    [instance |->
         [self EXCEPT !.view_state = ViewStateFitView(self.view_state, viewport, layer_bbox,
                                                      self.settings.zoom_num,
                                                      self.settings.zoom_den)],
     matrix |-> matrix, bbox |-> layer_bbox]

\* fit_view, once the transformed layer box is known
FitViewBox(self, viewport, matrix, layer_bbox) ==
    [instance |->
         [self EXCEPT !.view_state = ViewStateFitView(self.view_state, viewport, layer_bbox,
                                                      self.settings.zoom_num,
                                                      self.settings.zoom_den),
                      !.needs_view_fitting = FALSE],
     matrix |-> matrix, bbox |-> layer_bbox]

\* fit_view, once the matrix is composed
FitViewMatrix(self, viewport, matrix) ==
    FitViewBox(self, viewport, matrix,
               ApplyTransformMatrix(LayerBoundingBox(self.gerber_layer), matrix))

\* a faulty FitView: the matrix is composed as placement times image transform
FitViewReversed(self, viewport) ==
    FitViewMatrix(self, viewport,
                  MatMul(ToMatrix(self.transform), self.gerber_layer.image_transform))

\* GerberViewerInstance::fit_view
FitView(self, viewport) ==
    FitViewMatrix(self, viewport,
                  MatMul(self.gerber_layer.image_transform, ToMatrix(self.transform)))

\* a rotation advanced by q quarter turns
RECURSIVE Rotated(_, _)
Rotated(direction, q) ==
    IF q = 0 THEN direction
    ELSE Rotated(Direction(-(direction.s), direction.c, direction.n), q - 1)

\* a faulty MatVec3: the vertex is transformed as a direction, w taken as 0
MatVec3Linear(M, v) ==
    <<M.a * v[1] + M.b * v[2], M.c * v[1] + M.d * v[2], v[3]>>

\* matrix * Vector3, the point in homogeneous coordinates
MatVec3(M, v) ==
    <<M.a * v[1] + M.b * v[2] + M.tx * v[3], M.c * v[1] + M.d * v[2] + M.ty * v[3], v[3]>>

\* what one window did in one update
NoFrame ==
    [shown |-> FALSE, created |-> FALSE, reparsed |-> FALSE, painter |-> <<>>,
     renderer |-> None, outline_matrix |-> IdentityMatrix, outline_view |-> DefaultViewState,
     red_bbox |-> EmptyBoundingBox, bbox_vertices_screen |-> <<>>,
     outline_vertices_screen |-> <<>>, fitted |-> FALSE, fit_matrix |-> IdentityMatrix,
     fit_bbox |-> EmptyBoundingBox]

\* ui: the rotation of the animation
Animate(self, frame_delta) ==
    [self EXCEPT !.transform.rotation = Rotated(@, self.settings.rotation_speed * frame_delta)]

\* ui: the rotated outline of the layer's bounding box (GREEN)
OutlineVertices(bbox, matrix) ==
    [i \in 1..4 |->
        LET transformed == MatVec3(matrix, <<Vertices(bbox)[i][1], Vertices(bbox)[i][2], 1>>)
        IN  <<transformed[1], transformed[2]>>]

\* ui: the vertices converted to screen coordinates
ScreenVertices(view_state, vertices) ==
    [i \in 1..Len(vertices) |-> GerberToScreenCoords(view_state, vertices[i])]

\* a faulty UiUpdated: the frame stores a tessellation in every polygon
UiUpdatedTessellating(self, updated) ==
    [self EXCEPT !.view_state = updated.view_state, !.ui_state = updated.ui_state,
                 !.gerber_layer.primitives =
                     [i \in 1..Len(self.gerber_layer.primitives) |->
                         IF self.gerber_layer.primitives[i].kind = "Polygon"
                         THEN Polygon(self.gerber_layer.primitives[i].center,
                                      self.gerber_layer.primitives[i].exposure,
                                      PolygonGeometry(
                                          self.gerber_layer.primitives[i].geometry.relative_vertices,
                                          self.gerber_layer.primitives[i].geometry.is_convex,
                                          Tessellation(
                                              self.gerber_layer.primitives[i].geometry.relative_vertices,
                                              <<0, 1, 2>>)))
                         ELSE self.gerber_layer.primitives[i]]]

\* ui: the pan, drag and cursor handling
UiUpdated(self, updated) ==
    [self EXCEPT !.view_state = updated.view_state, !.ui_state = updated.ui_state]

\* ui: what the frame leaves behind once the layer is painted
UiPainted(turned, matrix, outline_vertices, fit, after, gerber_renderer, out) ==
    [panic |-> out.panic,
     instance |-> after,
     frame |-> [shown |-> TRUE, created |-> FALSE, reparsed |-> FALSE,
                painter |-> out.shapes,
                renderer |-> Some(gerber_renderer), outline_matrix |-> matrix,
                outline_view |-> turned.view_state,
                red_bbox |-> FromPoints(outline_vertices),
                bbox_vertices_screen |->
                    ScreenVertices(turned.view_state, Vertices(FromPoints(outline_vertices))),
                outline_vertices_screen |->
                    ScreenVertices(turned.view_state, outline_vertices),
                fitted |-> turned.needs_view_fitting,
                fit_matrix |-> IF turned.needs_view_fitting THEN fit.matrix
                               ELSE IdentityMatrix,
                fit_bbox |-> IF turned.needs_view_fitting THEN fit.bbox
                             ELSE EmptyBoundingBox]]

\* ui: GerberRenderer::new(..).paint_layer(painter, Color32::WHITE)
UiPaint(turned, matrix, outline_vertices, fit, after, gerber_renderer) ==
    UiPainted(turned, matrix, outline_vertices, fit, after, gerber_renderer,
              PaintLayer(gerber_renderer, WHITE))

\* ui: the frame from the pan and zoom handling on
UiUpdate(turned, matrix, outline_vertices, fit, after) ==
    UiPaint(turned, matrix, outline_vertices, fit, after,
            NewGerberRenderer(after.renderer_configuration, after.view_state,
                              after.transform, after.gerber_layer))

\* ui: the frame from the view fitting on
UiFit(turned, matrix, outline_vertices, fit, viewport, drag, zoom) ==
    UiUpdate(turned, matrix, outline_vertices, fit,
             UiUpdated(IF turned.needs_view_fitting THEN fit.instance ELSE turned,
                       UiStateUpdate((IF turned.needs_view_fitting THEN fit.instance
                                      ELSE turned).view_state,
                                     viewport, drag, zoom)))

\* ui: the frame from the bounding box and the outline on
UiOutline(turned, matrix, viewport, drag, zoom) ==
    UiFit(turned, matrix,
          OutlineVertices(LayerBoundingBox(turned.gerber_layer), matrix),
          FitView(turned, viewport), viewport, drag, zoom)

\* GerberViewerInstance::ui
InstanceUi(self, frame_delta, viewport, drag, zoom) ==
    UiOutline(Animate(self, frame_delta),
              MatMul(Animate(self, frame_delta).gerber_layer.image_transform,
                     ToMatrix(Animate(self, frame_delta).transform)),
              viewport, drag, zoom)

-----------------------------------------------------------------------------
(* DemoApp.                                                                 *)

NoEdit == ""

FrameDeltas == {1}
Drags == {<<300, -100>>}
Zooms == {2}

\* the cap that keeps the zoomable view finite
MaxScale == 25

\* what the user and the windowing system feed one DemoApp::update
Input(toggled, apply, edit, close, top, delta, pointer, drag, zoom) ==
    [toggled |-> toggled, apply |-> apply, edit |-> edit, close |-> close, top |-> top,
     delta |-> delta, pointer |-> pointer, drag |-> drag, zoom |-> zoom]

\* DemoApp::new
DemoAppNew ==
    LET ds == [k \in Kinds |-> Demo(k, InitialSource(k), InitialSettings(k), FALSE)]
    IN  [demos |-> ds,
         instances |-> [k \in Kinds |->
                           IF k = "Primary" THEN Some(NewInstance(ds[k]).instance) ELSE None],
         focussed_demo_kind |-> NoKind]

\* update: a demo of the list toggled open
Opened(kind, made) ==
    [panic |-> made.panic, instances |-> [instances EXCEPT ![kind] = Some(made.instance)]]

\* update: the demo list of the left panel
LeftPanel(in) ==
    IF in.toggled \in Kinds
    THEN IF instances[in.toggled] = None
         THEN Opened(in.toggled, NewInstance(demos[in.toggled]))
         ELSE [panic |-> FALSE, instances |-> [instances EXCEPT ![in.toggled] = None]]
    ELSE [panic |-> FALSE, instances |-> instances]

\* update: the right panel of the focussed demo: Apply changes, the source text
RightPanel(in) ==
    IF focussed_demo_kind # NoKind
    THEN [demos EXCEPT ![focussed_demo_kind] =
                           Demo(@.kind,
                                IF in.edit # NoEdit THEN in.edit ELSE @.source,
                                @.initial_settings,
                                IF in.apply THEN TRUE ELSE @.reparse_requested)]
    ELSE demos

\* a faulty WindowUis: the drag and the scroll reach every window
WindowUisShared(in, open) ==
    [k \in {kind \in Kinds : open[kind] # None} |->
        InstanceUi(open[k][1], in.delta, Viewport(k), in.drag, in.zoom)]

\* update: one window per instance, each running the instance's ui
WindowUis(in, open) ==
    [k \in {kind \in Kinds : open[kind] # None} |->
        InstanceUi(open[k][1], in.delta, Viewport(k),
                   IF in.pointer = k THEN in.drag ELSE <<0, 0>>,
                   IF in.pointer = k THEN in.zoom ELSE 1)]

\* update: the instances left when the windows closed this frame are removed
Remaining(in, uis) ==
    [k \in Kinds |->
        IF k \in DOMAIN uis /\ k # in.close THEN Some(uis[k].instance) ELSE None]

\* a faulty Focus: the focus is reset only when no window is left open
FocusKept(in, uis, left) ==
    LET on_top == IF in.top \in DOMAIN uis THEN in.top ELSE focussed_demo_kind
    IN  IF \A k \in Kinds : left[k] = None THEN NoKind
        ELSE on_top

\* update: the focus, set by the window on top, reset when no window is open or
\* when the focussed window is gone
Focus(in, uis, left) ==
    LET on_top == IF in.top \in DOMAIN uis THEN in.top ELSE focussed_demo_kind
    IN  IF \A k \in Kinds : left[k] = None THEN NoKind
        ELSE IF on_top # NoKind /\ left[on_top] = None THEN NoKind
        ELSE on_top

\* update: the reparse of every open instance whose demo requested one
Reparses(requests, open) ==
    [k \in {kind \in Kinds : requests[kind].reparse_requested /\ open[kind] # None} |->
        Reparse(open[k][1], requests[k].source)]

\* a faulty Consumed: the request of a demo without an instance is kept
ConsumedIfOpen(requests, open) ==
    [k \in Kinds |->
        [requests[k] EXCEPT !.reparse_requested = (@ /\ open[k] = None)]]

\* update: every reparse request is cleared, with or without an instance
Consumed(requests, open) ==
    [k \in Kinds |-> [requests[k] EXCEPT !.reparse_requested = FALSE]]

\* update: the requests the loop found set, and its calls of instance.reparse
Handled(requests, open) ==
    [k \in Kinds |->
        [requested |-> requests[k].reparse_requested,
         calls |-> IF requests[k].reparse_requested /\ open[k] # None THEN 1 ELSE 0]]

\* no update has handled a request
NoneHandled == [k \in Kinds |-> [requested |-> FALSE, calls |-> 0]]

\* no parse has failed
NoFailure == [source |-> NoEdit, during |-> "none"]

\* update: the parse that panicked, in GerberViewerInstance::new or in reparse
FailedSource(in, left, requests, reparses) ==
    IF left.panic THEN [source |-> demos[in.toggled].source, during |-> "new"]
    ELSE IF \E k \in DOMAIN reparses : reparses[k].panic
    THEN [source |-> requests[CHOOSE k \in DOMAIN reparses : reparses[k].panic].source,
          during |-> "reparse"]
    ELSE NoFailure

\* update: the state at the end of the update, or the panic that unwound it
UpdateDone(in, left, requests, uis, remaining, reparses) ==
    IF \/ left.panic
       \/ \E k \in DOMAIN uis : uis[k].panic
       \/ \E k \in DOMAIN reparses : reparses[k].panic
    THEN /\ panicked' = TRUE
         /\ parse_failure' = FailedSource(in, left, requests, reparses)
         /\ UNCHANGED <<demos, instances, focussed_demo_kind, frame, handled>>
    ELSE /\ demos' = Consumed(requests, remaining)
         /\ handled' = Handled(requests, remaining)
         /\ instances' = [k \in Kinds |->
                             IF k \in DOMAIN reparses THEN Some(reparses[k].instance)
                             ELSE remaining[k]]
         /\ focussed_demo_kind' = Focus(in, uis, remaining)
         /\ frame' = [k \in Kinds |->
                         IF k \in DOMAIN uis
                         THEN [uis[k].frame EXCEPT !.created = (k = in.toggled),
                                                   !.reparsed = (k \in DOMAIN reparses)]
                         ELSE NoFrame]
         /\ UNCHANGED <<panicked, parse_failure>>

\* update: from the close handling on
UpdateClosed(in, left, requests, uis, remaining) ==
    UpdateDone(in, left, requests, uis, remaining, Reparses(requests, remaining))

\* update: from the instance windows on
UpdateWindows(in, left, requests, uis) ==
    UpdateClosed(in, left, requests, uis, Remaining(in, uis))

\* update: from the panels on
UpdatePanels(in, left, requests) ==
    UpdateWindows(in, left, requests, WindowUis(in, left.instances))

\* DemoApp::update, to its end or to the panic that unwinds it
DemoAppUpdate(in) == UpdatePanels(in, LeftPanel(in), RightPanel(in))

\* the view states the cap admits
InCaps(view_state) == view_state.scale <= MaxScale

Tops == Kinds \cup {NoKind}

\* a frame without user input
UpdateIdle ==
    /\ ~panicked
    /\ \E top \in Tops, delta \in FrameDeltas :
          DemoAppUpdate(Input(NoKind, FALSE, NoEdit, NoKind, top, delta, NoKind, <<0, 0>>, 1))
    /\ UNCHANGED libVars

\* a frame in which the user toggles a demo in the demo list
UpdateToggle(kind) ==
    /\ ~panicked
    /\ \E top \in Tops, delta \in FrameDeltas :
          DemoAppUpdate(Input(kind, FALSE, NoEdit, NoKind, top, delta, NoKind, <<0, 0>>, 1))
    /\ UNCHANGED libVars

\* a frame in which the user clicks Apply changes; the pointer is over the side
\* panel, no window is the top layer
UpdateApply ==
    /\ ~panicked
    /\ focussed_demo_kind # NoKind
    /\ \E delta \in FrameDeltas :
          DemoAppUpdate(Input(NoKind, TRUE, NoEdit, NoKind, NoKind, delta, NoKind, <<0, 0>>, 1))
    /\ UNCHANGED libVars

\* a frame in which the user edits the source text in the side panel
UpdateEdit(source) ==
    /\ ~panicked
    /\ focussed_demo_kind # NoKind
    /\ \E delta \in FrameDeltas :
          DemoAppUpdate(Input(NoKind, FALSE, source, NoKind, NoKind, delta, NoKind, <<0, 0>>, 1))
    /\ UNCHANGED libVars

\* a frame in which the user clicks a window's close button
UpdateClose(kind) ==
    /\ ~panicked
    /\ instances[kind] # None
    /\ \E top \in Tops, delta \in FrameDeltas :
          DemoAppUpdate(Input(NoKind, FALSE, NoEdit, kind, top, delta, NoKind, <<0, 0>>, 1))
    /\ UNCHANGED libVars

\* a frame in which Apply changes is activated from the keyboard while the
\* pointer closes a window, in the demo list or by the window's close button
UpdateApplyClose(kind, by) ==
    /\ ~panicked
    /\ focussed_demo_kind # NoKind
    /\ instances[kind] # None
    /\ \E top \in Tops, delta \in FrameDeltas :
          DemoAppUpdate(Input(IF by = "list" THEN kind ELSE NoKind, TRUE, NoEdit,
                              IF by = "button" THEN kind ELSE NoKind,
                              top, delta, NoKind, <<0, 0>>, 1))
    /\ UNCHANGED libVars

\* a frame in which the user drags or scrolls in a window
UpdatePanZoom(kind, drag, zoom) ==
    /\ ~panicked
    /\ instances[kind] # None
    /\ \E delta \in FrameDeltas :
          DemoAppUpdate(Input(NoKind, FALSE, NoEdit, NoKind, kind, delta, kind, drag, zoom))
    /\ ~panicked' => InCaps(instances'[kind][1].view_state)
    /\ UNCHANGED libVars

-----------------------------------------------------------------------------
(* The specifications.                                                      *)

Init ==
    /\ renderer = None
    /\ painter = <<>>
    /\ rendered = 0
    /\ panicked = FALSE
    /\ screen_pos = NoQuery
    /\ placement = IdentityTransform
    /\ demos = DemoAppNew.demos
    /\ instances = DemoAppNew.instances
    /\ focussed_demo_kind = DemoAppNew.focussed_demo_kind
    /\ frame = [k \in Kinds |-> NoFrame]
    /\ parse_failure = NoFailure
    /\ handled = NoneHandled

\* the renderer under its callers
Next ==
    \/ \E configuration \in Configurations, view \in ViewStates, transform \in Placements :
          \E layer \in LayersUnder(transform) :
              New(configuration, view, transform, layer)
    \/ \E base_color \in BaseColors : Paint(base_color)
    \/ \E position \in Positions : Convert(position)
    \/ Drop

Spec == Init /\ [][Next]_vars

\* the demo application under its user
AppNext ==
    \/ UpdateIdle
    \/ \E kind \in Kinds : UpdateToggle(kind)
    \/ UpdateApply
    \/ \E source \in EditedSources : UpdateEdit(source)
    \/ \E kind \in Kinds : UpdateClose(kind)
    \/ \E kind \in Kinds, by \in {"list", "button"} : UpdateApplyClose(kind, by)
    \/ \E kind \in Kinds, drag \in Drags, zoom \in Zooms : UpdatePanZoom(kind, drag, zoom)

AppSpec == Init /\ [][AppNext]_vars

-----------------------------------------------------------------------------
(* Properties of the renderer.                                              *)

\* the layer in the renderer's hands is painted
LayerPainted == renderer # None /\ rendered > 0

\* the screen position of a document point: Y inverted once, then the composed
\* matrix, then the view
DocumentToScreen(self, p) ==
    VecAdd(self.view.translation,
           VecScale(TransformPos2(self.transform_matrix, <<p[1], -(p[2])>>),
                    self.view.scale))

\* the screen positions of the four corners of a document-space box
BoxToScreen(self, min, max) ==
    {DocumentToScreen(self, <<x, y>>) : x \in {min[1], max[1]}, y \in {min[2], max[2]}}

\* the document points offset from a centre, on screen
OffsetsToScreen(self, center, offsets) ==
    [i \in 1..Len(offsets) |-> DocumentToScreen(self, VecAdd(center, offsets[i]))]

\* the middle of two screen positions
Midpoint(p, q) == <<Half(p[1] + q[1]), Half(p[2] + q[2])>>

\* the document point a shape number is anchored on, on screen
NumberAnchor(self, primitive) ==
    CASE primitive.kind = "Circle" -> DocumentToScreen(self, primitive.center)
      [] primitive.kind = "Rectangle" ->
            DocumentToScreen(self, <<primitive.origin[1] + Half(primitive.width),
                                     primitive.origin[2] + Half(primitive.height)>>)
      [] primitive.kind = "Line" ->
            Midpoint(DocumentToScreen(self, primitive.start),
                     DocumentToScreen(self, primitive.end))
      [] primitive.kind = "Arc" ->
            DocumentToScreen(self,
                VecAdd(primitive.center,
                       GeneratePoints(primitive)[(Len(GeneratePoints(primitive)) \div 2) + 1]))
      [] OTHER -> DocumentToScreen(self, primitive.center)

\* a shape drawn for a primitive sits where the primitive's document points
\* land with Y inverted once; first: the shape is the primitive's first
FlippedOnce(self, primitive, first, draw) ==
    CASE draw.op = "text" /\ draw.color = GREEN ->
            draw.points[1] = NumberAnchor(self, primitive)
      [] draw.op = "text" /\ draw.color # GREEN ->
            draw.points[1] = DocumentToScreen(self,
                                 VecAdd(primitive.center,
                                        primitive.geometry.relative_vertices[draw.text + 1]))
      [] draw.op = "circle" /\ primitive.kind = "Circle" ->
            draw.points[1] = DocumentToScreen(self, primitive.center)
      [] draw.op = "circle" /\ primitive.kind = "Line" ->
            draw.points[1] \in {DocumentToScreen(self, primitive.start),
                                DocumentToScreen(self, primitive.end)}
      [] draw.op = "line_segment" ->
            draw.points = <<DocumentToScreen(self, primitive.start),
                            DocumentToScreen(self, primitive.end)>>
      [] draw.op = "rect" ->
            VecAdd(draw.points[1], <<Half(draw.extent[1]), Half(draw.extent[2])>>)
                = DocumentToScreen(self, <<primitive.origin[1] + Half(primitive.width),
                                           primitive.origin[2] + Half(primitive.height)>>)
      [] draw.op = "convex_polygon" /\ primitive.kind = "Rectangle" ->
            Range(draw.points)
                = BoxToScreen(self, primitive.origin,
                              VecAdd(primitive.origin, <<primitive.width, primitive.height>>))
      [] draw.op = "convex_polygon" /\ primitive.kind = "Polygon" ->
            draw.points = OffsetsToScreen(self, primitive.center,
                                          primitive.geometry.relative_vertices)
      [] draw.op = "mesh" ->
            draw.points = OffsetsToScreen(self, primitive.center,
                                          primitive.geometry.tessellation.vertices)
      [] draw.op = "path" /\ primitive.kind = "Arc" /\ first ->
            draw.points = OffsetsToScreen(self, primitive.center, GeneratePoints(primitive))
      [] draw.op = "path" ->
            Range(draw.points)
                = BoxToScreen(self, PrimitiveBoundingBox(primitive).min,
                              PrimitiveBoundingBox(primitive).max)
      [] OTHER -> FALSE

\* C1: every position the renderer hands to the painter, for every primitive
\* kind, and every position gerber_to_screen_coordinates returns, is the
\* document position with its Y negated exactly once before the composed matrix
\* and the view are applied.
C1_YNegatedOnce ==
    /\ screen_pos.asked =>
          screen_pos.result = DocumentToScreen(renderer[1], screen_pos.position)
    /\ \A i \in 1..Len(painter) :
          FlippedOnce(renderer[1],
                      renderer[1].layer.primitives[painter[i].shape + 1],
                      i = 1 \/ painter[i - 1].shape # painter[i].shape,
                      painter[i].draw)

\* a layer with a tessellated polygon is painted under the rotated placement and
\* the mirroring image transform, and a position with a non-zero Y is converted
C1_Witness ==
    /\ LayerPainted
    /\ placement.rotation = Direction(3, 4, 5)
    /\ renderer[1].layer.image_transform # IdentityMatrix
    /\ \E i \in 1..Len(painter) : painter[i].draw.op = "mesh"
    /\ \E i \in 1..Len(painter) : painter[i].draw.op = "path" /\ painter[i].shape = 0
    /\ screen_pos.asked
    /\ screen_pos.position[2] # 0

\* the shapes the painter got for the primitive at a position
ShapesOf(position) == SelectSeq(painter, LAMBDA e : e.shape = position)

\* the scale factor of the composed matrix, from the placement and the layer
ScaleFactor ==
    GetScalingFactors(MatMul(renderer[1].layer.image_transform, ToMatrix(placement)))[1]

\* the primitive of the layer at a position
PrimitiveAt(position) == renderer[1].layer.primitives[position + 1]

\* the positions of the layer's primitives of a kind
PositionsOf(kind) ==
    {q \in 0..(Len(renderer[1].layer.primitives) - 1) : PrimitiveAt(q).kind = kind}

\* the fills and strokes among the shapes of a primitive: neither the
\* bounding-box outline nor a number
Fills(position) ==
    SelectSeq(ShapesOf(position),
              LAMBDA e : /\ e.draw.op # "text"
                         /\ ~(e.draw.op = "path" /\ PrimitiveAt(position).kind # "Arc"))

\* C2: a circle primitive is drawn as one filled circle whose centre is
\* view.translation + M * (cx, -cy) * view.scale and whose radius is
\* diameter * scale_x / 2 * view.scale; the circle at (0, 0) of diameter 10
\* under the identity placement and the view ((0, 0), 1) is drawn at (0, 0) with
\* radius 5.
C2_CircleRender ==
    LayerPainted =>
        /\ \A q \in PositionsOf("Circle") :
              LET circles == SelectSeq(ShapesOf(q), LAMBDA e : e.draw.op = "circle")
              IN  /\ Len(circles) = 1
                  /\ circles[1] = ShapesOf(q)[1]
                  /\ \A i \in 1..Len(ShapesOf(q)) :
                        ShapesOf(q)[i].draw.op \in {"circle", "path", "text"}
                  /\ circles[1].draw.points
                        = << VecAdd(renderer[1].view.translation,
                                    VecScale(TransformPos2(renderer[1].transform_matrix,
                                                           <<PrimitiveAt(q).center[1],
                                                             -(PrimitiveAt(q).center[2])>>),
                                             renderer[1].view.scale)) >>
                  /\ circles[1].draw.extent
                        = << Half(PrimitiveAt(q).diameter * ScaleFactor)
                                 * renderer[1].view.scale >>
        /\ ( /\ renderer[1].layer = GerberLayer(IdentityMatrix, << Circle(<<0, 0>>, 10, "Add") >>)
             /\ placement = IdentityTransform
             /\ renderer[1].view = DefaultViewState )
           => /\ painter[1].draw.op = "circle"
              /\ painter[1].draw.points = << <<0, 0>> >>
              /\ painter[1].draw.extent = <<5>>

\* the circle of the example is painted
C2_Witness ==
    /\ LayerPainted
    /\ renderer[1].layer = GerberLayer(IdentityMatrix, << Circle(<<0, 0>>, 10, "Add") >>)
    /\ placement = IdentityTransform
    /\ renderer[1].view = DefaultViewState
    /\ painter[1].draw.extent = <<5>>

\* C7: the diameter of a circle, the width of a line and the radius of its end
\* caps, and the stroke width of an arc are each multiplied by the scale factor
\* of the transform and by view.scale.
C7_WidthsScaled ==
    LayerPainted =>
        /\ \A q \in PositionsOf("Circle") :
              Fills(q)[1].draw.extent
                  = << Half(PrimitiveAt(q).diameter * ScaleFactor) * renderer[1].view.scale >>
        /\ \A q \in PositionsOf("Line") :
              /\ Fills(q)[1].draw.extent
                    = << PrimitiveAt(q).width * ScaleFactor * renderer[1].view.scale >>
              /\ \A i \in 2..3 :
                    Fills(q)[i].draw.extent
                        = << Half(PrimitiveAt(q).width * ScaleFactor)
                                 * renderer[1].view.scale >>
        /\ \A q \in PositionsOf("Arc") :
              Fills(q)[1].draw.extent
                  = << PrimitiveAt(q).width * ScaleFactor * renderer[1].view.scale >>

\* the shapes of one primitive, tagged with its position
Tagged(position, shapes) ==
    [i \in 1..Len(shapes) |-> [shape |-> position, draw |-> shapes[i]]]

\* what the painter holds when the primitives from a position on are each
\* rendered once, in stored order, with the position as the index
RECURSIVE InStoredOrder(_, _, _)
InStoredOrder(self, base_color, position) ==
    IF position >= Len(self.layer.primitives) THEN <<>>
    ELSE Tagged(position,
                RenderPrimitive(self.layer.primitives[position + 1], self.view,
                                self.transform_matrix, self.transform_scaling,
                                IF self.configuration.use_unique_shape_colors
                                THEN GeneratePastelColor(position) ELSE base_color,
                                IF self.configuration.use_shape_numbering THEN position
                                ELSE NoNumber,
                                self.configuration).shapes)
         \o InStoredOrder(self, base_color, position + 1)

\* C3: paint_layer renders every primitive of the layer exactly once and in the
\* stored order, index 0 first: the draw operations of a later primitive all
\* come after those of every earlier one, and the index behind the shape number
\* and the unique colour of a primitive is its position in the layer.
C3_StoredOrder ==
    LayerPainted =>
        /\ rendered = Len(renderer[1].layer.primitives)
        /\ \A i \in 1..Len(painter), j \in 1..Len(painter) :
              i < j => painter[i].shape <= painter[j].shape
        /\ \A i \in 1..Len(painter) :
              /\ (painter[i].draw.op = "text" /\ painter[i].draw.color = GREEN)
                    => painter[i].draw.text = painter[i].shape
              /\ ( /\ renderer[1].configuration.use_unique_shape_colors
                   /\ painter[i].draw.op # "text"
                   /\ PrimitiveAt(painter[i].shape).exposure = "Add" )
                    => painter[i].draw.color = GeneratePastelColor(painter[i].shape)
        /\ \E base_color \in BaseColors :
              painter = InStoredOrder(renderer[1], base_color, 0)

\* a layer of three primitives is painted with shape numbers and unique colours
C3_Witness ==
    /\ LayerPainted
    /\ Len(renderer[1].layer.primitives) = 3
    /\ renderer[1].configuration.use_shape_numbering
    /\ renderer[1].configuration.use_unique_shape_colors
    /\ \E i \in 1..Len(painter) : painter[i].draw.op = "text" /\ painter[i].draw.text = 2
    /\ painter[1].shape = 0
    /\ painter[Len(painter)].shape = 2

\* the arcs of the layer in the renderer's hands
Arcs ==
    {renderer[1].layer.primitives[q + 1] : q \in PositionsOf("Arc")}

\* C6: rendering never panics on degenerate geometry: generate_points returns
\* at least one point for every arc, zero radius, zero width and zero sweep
\* included, so points[steps / 2] is in bounds; zero-diameter circles,
\* zero-length lines and polygons with an empty ring draw a point or nothing,
\* and painting goes on with the next primitive.
C6_NoPanic ==
    /\ ~panicked
    /\ renderer # None =>
          \A arc \in Arcs :
              /\ Len(GeneratePoints(arc)) >= 1
              /\ Len(GeneratePoints(arc)) \div 2 < Len(GeneratePoints(arc))
    /\ LayerPainted =>
          /\ rendered = Len(renderer[1].layer.primitives)
          /\ \A q \in PositionsOf("Circle") :
                PrimitiveAt(q).diameter = 0 => Fills(q)[1].draw.extent = <<0>>
          /\ \A q \in PositionsOf("Line") :
                PrimitiveAt(q).start = PrimitiveAt(q).end
                    => Fills(q)[1].draw.points[1] = Fills(q)[1].draw.points[2]
          /\ \A q \in PositionsOf("Polygon") :
                PrimitiveAt(q).geometry.relative_vertices = <<>> => Fills(q) = <<>>

\* the layer of degenerate primitives is painted to its last primitive
C6_Witness ==
    /\ LayerPainted
    /\ \E arc \in Arcs : arc.radius = 0 /\ arc.width = 0 /\ SweepAngle(arc) = 0
    /\ \E q \in PositionsOf("Circle") : PrimitiveAt(q).diameter = 0
    /\ \E q \in PositionsOf("Polygon") : PrimitiveAt(q).geometry.relative_vertices = <<>>
    /\ rendered = 5
    /\ painter[Len(painter)].shape = 4

\* a primitive with the other exposure
OtherExposure(primitive) ==
    [primitive EXCEPT !.exposure = IF @ = "Add" THEN "Subtract" ELSE "Add"]

\* a shape without the colour that exposure.to_color decides
Colourless(draw) ==
    IF draw.op = "text" THEN draw ELSE [draw EXCEPT !.color = TRANSPARENT]

\* the shapes of the primitive at a position, had it the other exposure
OtherShapes(self, position) ==
    RenderPrimitive(OtherExposure(self.layer.primitives[position + 1]), self.view,
                    self.transform_matrix, self.transform_scaling, WHITE,
                    IF self.configuration.use_shape_numbering THEN position ELSE NoNumber,
                    self.configuration).shapes

\* C10: exposure affects colour only: a primitive rendered with exposure Add
\* and with exposure Subtract under the same transform, view and configuration
\* emits the same sequence of draw operations with the same geometry, the
\* colour from exposure.to_color apart.
C10_ExposureColourOnly ==
    LayerPainted =>
        \A q \in 0..(Len(renderer[1].layer.primitives) - 1) :
            /\ Len(ShapesOf(q)) = Len(OtherShapes(renderer[1], q))
            /\ \A i \in 1..Len(ShapesOf(q)) :
                  Colourless(ShapesOf(q)[i].draw) = Colourless(OtherShapes(renderer[1], q)[i])

\* a layer with primitives of both exposures is painted in a base colour, the
\* Subtract ones in another colour than the Add ones
C10_Witness ==
    /\ LayerPainted
    /\ ~renderer[1].configuration.use_unique_shape_colors
    /\ \E i \in 1..Len(painter), j \in 1..Len(painter) :
          /\ PrimitiveAt(painter[i].shape).exposure = "Add"
          /\ PrimitiveAt(painter[j].shape).exposure = "Subtract"
          /\ painter[i].draw.op = "rect"
          /\ painter[j].draw.op = "circle"
          /\ painter[i].draw.color # painter[j].draw.color

-----------------------------------------------------------------------------
(* Properties of the demo application.                                      *)

\* C4: a reparse with a source that fails to parse surfaces a parse failure to
\* the caller and leaves the previous gerber_layer in place, rendered on the
\* following frames: the update in which the parse fails comes to its end.
C4_ParseFailureSurfaced ==
    parse_failure.during = "reparse" => ~panicked

\* C5: rendering is read-only on the document: a frame paints the layer the
\* instance held when the frame began and leaves the primitive sequence and
\* every polygon's vertices, convexity and tessellation as they were; the layer
\* of an open instance changes only in a reparse, which replaces it by the
\* layer built from the demo's source.
C5_RenderingReadOnly ==
    [][\A k \in Kinds :
          (instances[k] # None /\ ~panicked') =>
              /\ frame'[k].shown =>
                    frame'[k].renderer[1].layer = instances[k][1].gerber_layer
              /\ instances'[k] # None =>
                    IF frame'[k].reparsed
                    THEN instances'[k][1].gerber_layer = BuildLayer(demos'[k].source).layer
                    ELSE instances'[k][1].gerber_layer = instances[k][1].gerber_layer]_vars

\* a frame painted a layer with a tessellated polygon and left it in place, the
\* layer having come from a reparse of an edited source
C5_Witness ==
    /\ instances["Primary"] # None
    /\ frame["Primary"].shown
    /\ ~frame["Primary"].reparsed
    /\ frame["Primary"].renderer[1].layer = BuildLayer("edited.gbr").layer
    /\ instances["Primary"][1].gerber_layer = BuildLayer("edited.gbr").layer
    /\ \E i \in 1..Len(frame["Primary"].painter) : frame["Primary"].painter[i].draw.op = "mesh"

\* C8: in one frame GerberRenderer::new, fit_view and the outline overlay
\* compose the same matrix, image transform times placement transform in that
\* order, from the same layer and the same GerberTransform: the matrix that
\* paints, the matrix that fits the view and the matrix of the outlines are
\* identical.
C8_OneMatrix ==
    \A k \in Kinds :
        frame[k].shown =>
            /\ frame[k].outline_matrix = frame[k].renderer[1].transform_matrix
            /\ frame[k].fitted => frame[k].fit_matrix = frame[k].renderer[1].transform_matrix
            /\ instances[k] # None =>
                  frame[k].renderer[1].transform_matrix
                      = MatMul(frame[k].renderer[1].layer.image_transform,
                               ToMatrix(instances[k][1].transform))

\* the view of the primary demo is fitted in a frame in which the image
\* transform and the animated placement do not commute
C8_Witness ==
    /\ frame["Primary"].shown
    /\ frame["Primary"].fitted
    /\ instances["Primary"] # None
    /\ instances["Primary"][1].transform.rotation # PrimaryDemoSettings.initial_rotation
    /\ MatMul(frame["Primary"].renderer[1].layer.image_transform,
              ToMatrix(instances["Primary"][1].transform))
          # MatMul(ToMatrix(instances["Primary"][1].transform),
                   frame["Primary"].renderer[1].layer.image_transform)

\* the box over the four vertices of a box, each transformed by the matrix
CornerBox(bbox, M) ==
    FromPoints([i \in 1..4 |-> TransformPoint(M, Vertices(bbox)[i])])

\* a box encloses a point
Encloses(bbox, p) ==
    /\ bbox.min[1] <= p[1] /\ p[1] <= bbox.max[1]
    /\ bbox.min[2] <= p[2] /\ p[2] <= bbox.max[2]

\* the composed matrices of the placements and image transforms above
ComposedMatrices ==
    {MatMul(image, ToMatrix(t)) : image \in ImageTransforms, t \in Placements}

\* C9: for every bounding box and every composed matrix M,
\* apply_transform_matrix(M), the box handed to fit_view, equals from_points of
\* the box's four vertices each transformed by M, the red overlay box of ui,
\* and encloses the four transformed corners.
C9_TransformedBox ==
    /\ \A k \in Kinds :
          (frame[k].shown /\ frame[k].fitted) =>
              /\ frame[k].fit_bbox = frame[k].red_bbox
              /\ \A i \in 1..4 :
                    Encloses(frame[k].fit_bbox,
                             TransformPoint(frame[k].renderer[1].transform_matrix,
                                 Vertices(LayerBoundingBox(frame[k].renderer[1].layer))[i]))
    /\ \A k \in Kinds, M \in ComposedMatrices :
          instances[k] # None =>
              ApplyTransformMatrix(LayerBoundingBox(instances[k][1].gerber_layer), M)
                  = CornerBox(LayerBoundingBox(instances[k][1].gerber_layer), M)

\* the view of the primary demo is fitted to a rotated box that transforming
\* min and max alone does not give
C9_Witness ==
    /\ frame["Primary"].shown
    /\ frame["Primary"].fitted
    /\ frame["Primary"].fit_bbox = frame["Primary"].red_bbox
    /\ frame["Primary"].fit_bbox
          # FromPoints(<< TransformPoint(frame["Primary"].renderer[1].transform_matrix,
                              LayerBoundingBox(frame["Primary"].renderer[1].layer).min),
                          TransformPoint(frame["Primary"].renderer[1].transform_matrix,
                              LayerBoundingBox(frame["Primary"].renderer[1].layer).max) >>)

\* the instance of a kind runs its frame in this update, having been open before
\* it and staying open after it
Continues(k) ==
    /\ instances[k] # None
    /\ instances'[k] # None
    /\ frame'[k].shown
    /\ ~frame'[k].created

\* C11: one frame of one instance changes only that instance's own transform,
\* view_state, ui_state and needs_view_fitting: its settings, its renderer
\* configuration and (reparse apart) its layer stay, its transform changes in
\* the rotation alone and by its own settings' speed, a pan or zoom reaches the
\* view state of one window only, the Demo's initial_settings stay and its
\* source changes only under the side panel of the focussed demo, and an
\* instance created from a Demo starts from the Demo's settings whatever an
\* earlier or another instance has done.
C11_InstanceIsolation ==
    [][~panicked' =>
          /\ \A k \in Kinds :
                /\ demos'[k].initial_settings = demos[k].initial_settings
                /\ demos'[k].source # demos[k].source => k = focussed_demo_kind
          /\ \A k \in Kinds :
                Continues(k) =>
                    /\ instances'[k][1].settings = instances[k][1].settings
                    /\ instances'[k][1].renderer_configuration
                          = instances[k][1].renderer_configuration
                    /\ ~frame'[k].reparsed =>
                          instances'[k][1].gerber_layer = instances[k][1].gerber_layer
                    /\ \E delta \in FrameDeltas :
                          instances'[k][1].transform
                              = [instances[k][1].transform EXCEPT
                                    !.rotation = Rotated(@, instances[k][1].settings.rotation_speed
                                                                * delta)]
          /\ \A j \in Kinds, k \in Kinds :
                (j # k /\ Continues(j) /\ Continues(k)
                     /\ ~frame'[j].fitted /\ ~frame'[k].fitted) =>
                    \/ instances'[j][1].view_state = instances[j][1].view_state
                    \/ instances'[k][1].view_state = instances[k][1].view_state
          /\ \A k \in Kinds :
                (frame'[k].created /\ instances'[k] # None) =>
                    /\ instances'[k][1].settings = demos[k].initial_settings
                    /\ instances'[k][1].gerber_layer = BuildLayer(demos[k].source).layer
                    /\ \E delta \in FrameDeltas :
                          instances'[k][1].transform
                              = Animate(NewInstance(demos[k]).instance, delta).transform]_vars

\* both windows are open and fitted earlier; the frame panned and zoomed the
\* primary window alone and turned the primary instance's own rotation away
\* from the initial rotation of the Demo's settings
C11_Witness ==
    /\ \A k \in Kinds : instances[k] # None /\ frame[k].shown /\ ~frame[k].fitted
    /\ instances["Primary"][1].view_state # frame["Primary"].outline_view
    /\ instances["Playground"][1].view_state = frame["Playground"].outline_view
    /\ instances["Primary"][1].transform.rotation # demos["Primary"].initial_settings.initial_rotation
    /\ instances["Primary"][1].settings = demos["Primary"].initial_settings

\* what a shape of the painter is there for: the primitive's own fill or stroke,
\* its bounding-box outline, its shape number or one of its vertex numbers
Role(self, shapes, i) ==
    CASE shapes[i].draw.op = "text" /\ shapes[i].draw.color = GREEN -> "shape_number"
      [] shapes[i].draw.op = "text" /\ shapes[i].draw.color # GREEN -> "vertex_number"
      [] /\ shapes[i].draw.op = "path"
         /\ ~ /\ self.layer.primitives[shapes[i].shape + 1].kind = "Arc"
              /\ (i = 1 \/ shapes[i - 1].shape # shapes[i].shape) -> "bbox"
      [] OTHER -> "fill"

\* the shapes of a paint_layer call, each with its role
Marked(self, shapes) ==
    [i \in 1..Len(shapes) |->
        [shape |-> shapes[i].shape, draw |-> shapes[i].draw, role |-> Role(self, shapes, i)]]

\* the shapes of the roles
Keeping(marked, roles) == SelectSeq(marked, LAMBDA e : e.role \in roles)

Roles == {"fill", "bbox", "shape_number", "vertex_number"}

\* the shapes without the colour of the fills, strokes and outlines
Uncoloured(marked) ==
    [i \in 1..Len(marked) |->
        IF marked[i].role \in {"fill", "bbox"}
        THEN [marked[i] EXCEPT !.draw.color = TRANSPARENT] ELSE marked[i]]

\* the renderer with one option of its configuration the other way
Flipped(self, option) == [self EXCEPT !.configuration[option] = ~@]

\* what paint_layer draws with one option the other way
FlippedPaint(self, option, base_color) ==
    Marked(Flipped(self, option), PaintLayer(Flipped(self, option), base_color).shapes)

\* the number of vertices of the polygons among the primitives
RECURSIVE PolygonVertices(_)
PolygonVertices(primitives) ==
    IF Len(primitives) = 0 THEN 0
    ELSE (IF Head(primitives).kind = "Polygon"
          THEN Len(Head(primitives).geometry.relative_vertices) ELSE 0)
         + PolygonVertices(Tail(primitives))

\* the options gate their own output, for the layer painted in a base colour
OptionsGate(self, here, base_color) ==
    /\ Uncoloured(here) = Uncoloured(FlippedPaint(self, "use_unique_shape_colors", base_color))
    /\ \A i \in 1..Len(here) :
          here[i].role \in {"fill", "bbox"} =>
              here[i].draw.color
                  = ToColor(self.layer.primitives[here[i].shape + 1].exposure,
                            IF self.configuration.use_unique_shape_colors
                            THEN GeneratePastelColor(here[i].shape) ELSE base_color)
    /\ Keeping(here, Roles \ {"shape_number"})
          = Keeping(FlippedPaint(self, "use_shape_numbering", base_color),
                    Roles \ {"shape_number"})
    /\ Len(Keeping(here, {"shape_number"}))
          = IF self.configuration.use_shape_numbering THEN Len(self.layer.primitives) ELSE 0
    /\ Keeping(here, Roles \ {"vertex_number"})
          = Keeping(FlippedPaint(self, "use_vertex_numbering", base_color),
                    Roles \ {"vertex_number"})
    /\ Len(Keeping(here, {"vertex_number"}))
          = IF self.configuration.use_vertex_numbering
            THEN PolygonVertices(self.layer.primitives) ELSE 0
    /\ Keeping(here, Roles \ {"bbox"})
          = Keeping(FlippedPaint(self, "use_shape_bboxes", base_color), Roles \ {"bbox"})
    /\ Len(Keeping(here, {"bbox"}))
          = IF self.configuration.use_shape_bboxes THEN Len(self.layer.primitives) ELSE 0
    /\ self.configuration = DefaultRenderConfiguration => Keeping(here, {"fill"}) = here

\* C12: RenderConfiguration::default() has the four options off, and each
\* option gates its own output in paint_layer: use_unique_shape_colors only
\* selects between the index-derived colour and base_color, use_shape_numbering
\* only adds the shape-number text, use_vertex_numbering only adds the vertex
\* texts of polygons, use_shape_bboxes only adds the bounding-box outline; with
\* the four off a primitive emits its own fill and stroke shapes only, and
\* turning one option the other way leaves the output of the others as it was.
C12_OptionsGate ==
    /\ \A option \in DOMAIN DefaultRenderConfiguration : ~DefaultRenderConfiguration[option]
    /\ LayerPainted =>
          \E base_color \in BaseColors :
              /\ painter = PaintLayer(renderer[1], base_color).shapes
              /\ OptionsGate(renderer[1], Marked(renderer[1], painter), base_color)

\* a layer with an arc and two polygons is painted with vertex numbers and
\* bounding boxes on, shape numbers and unique colours off
C12_Witness ==
    /\ LayerPainted
    /\ renderer[1].configuration = RenderConfiguration(FALSE, FALSE, TRUE, TRUE)
    /\ Len(Keeping(Marked(renderer[1], painter), {"vertex_number"})) = 8
    /\ Len(Keeping(Marked(renderer[1], painter), {"bbox"})) = 3
    /\ Len(Keeping(Marked(renderer[1], painter), {"shape_number"})) = 0
    /\ PositionsOf("Arc") # {}

\* the composed matrix, from the layer's image transform and the placement
Composed == MatMul(renderer[1].layer.image_transform, ToMatrix(placement))

\* the placement turns by a multiple of 90 degrees, by 90 or 270 degrees
RightAngled == placement.rotation.c = 0 \/ placement.rotation.s = 0
QuarterTurned == placement.rotation.c = 0

\* the document centre of a rectangle
RectangleCenter(rectangle) ==
    <<rectangle.origin[1] + Half(rectangle.width), rectangle.origin[2] + Half(rectangle.height)>>

\* the document corners of a rectangle, in the order the general path emits them
RectangleCorners(rectangle) ==
    << <<rectangle.origin[1], rectangle.origin[2] + rectangle.height>>,
       <<rectangle.origin[1] + rectangle.width, rectangle.origin[2] + rectangle.height>>,
       <<rectangle.origin[1] + rectangle.width, rectangle.origin[2]>>,
       rectangle.origin >>

\* C13: a rectangle under an axis-aligned composed matrix (a placement rotation
\* of 0, 90, 180 or 270 degrees, mirrored or not) is emitted through the fast
\* path as one axis-aligned rect centred on the transformed centre of the
\* rectangle, width and height swapped exactly when the rotation is 90 or 270
\* degrees; under every other matrix it is emitted as one convex polygon of the
\* four transformed corners.
C13_RectanglePaths ==
    LayerPainted =>
        \A q \in PositionsOf("Rectangle") :
            /\ Len(Fills(q)) = 1
            /\ Fills(q)[1] = ShapesOf(q)[1]
            /\ IF RightAngled
               THEN /\ Fills(q)[1].draw.op = "rect"
                    /\ VecAdd(Fills(q)[1].draw.points[1],
                              <<Half(Fills(q)[1].draw.extent[1]),
                                Half(Fills(q)[1].draw.extent[2])>>)
                          = DocumentToScreen(renderer[1], RectangleCenter(PrimitiveAt(q)))
                    /\ Fills(q)[1].draw.extent
                          = VecScale(
                                IF QuarterTurned
                                THEN <<PrimitiveAt(q).height * GetScalingFactors(Composed)[1],
                                       PrimitiveAt(q).width * GetScalingFactors(Composed)[2]>>
                                ELSE <<PrimitiveAt(q).width * GetScalingFactors(Composed)[1],
                                       PrimitiveAt(q).height * GetScalingFactors(Composed)[2]>>,
                                renderer[1].view.scale)
               ELSE /\ Fills(q)[1].draw.op = "convex_polygon"
                    /\ Fills(q)[1].draw.points
                          = [i \in 1..4 |->
                                DocumentToScreen(renderer[1], RectangleCorners(PrimitiveAt(q))[i])]

\* a rectangle whose sides differ is painted under the mirrored placement turned
\* by 270 degrees: the rect is as wide as the rectangle is high
C13_Witness ==
    /\ LayerPainted
    /\ placement.rotation = Direction(0, -1, 1)
    /\ placement.mirroring = <<TRUE, FALSE>>
    /\ renderer[1].layer.image_transform = IdentityMatrix
    /\ renderer[1].view.scale = 1
    /\ \E q \in PositionsOf("Rectangle") :
          /\ PrimitiveAt(q).width = 6 /\ PrimitiveAt(q).height = 2
          /\ Fills(q)[1].draw.op = "rect"
          /\ Fills(q)[1].draw.extent = <<2, 6>>

\* C14: a polygon is filled once: a convex one as one convex polygon whose
\* points are the relative vertices in stored order, as many as stored; a
\* non-convex one with a tessellation as one indexed mesh whose indices are the
\* stored indices unchanged and whose vertices are the tessellation's, one for
\* one; a non-convex polygon without a tessellation gets no fill and raises no
\* error, and the primitives after it are painted.
C14_PolygonFill ==
    LayerPainted =>
        \A q \in PositionsOf("Polygon") :
            LET geometry == PrimitiveAt(q).geometry
            IN  /\ geometry.is_convex =>
                      /\ Len(Fills(q)) = 1
                      /\ Fills(q)[1] = ShapesOf(q)[1]
                      /\ Fills(q)[1].draw.op = "convex_polygon"
                      /\ Len(Fills(q)[1].draw.points) = Len(geometry.relative_vertices)
                      /\ Fills(q)[1].draw.points
                            = OffsetsToScreen(renderer[1], PrimitiveAt(q).center,
                                              geometry.relative_vertices)
                /\ (~geometry.is_convex /\ geometry.tessellation.present) =>
                      /\ Len(Fills(q)) = 1
                      /\ Fills(q)[1] = ShapesOf(q)[1]
                      /\ Fills(q)[1].draw.op = "mesh"
                      /\ Fills(q)[1].draw.indices = geometry.tessellation.indices
                      /\ Len(Fills(q)[1].draw.points) = Len(geometry.tessellation.vertices)
                      /\ Fills(q)[1].draw.points
                            = OffsetsToScreen(renderer[1], PrimitiveAt(q).center,
                                              geometry.tessellation.vertices)
                /\ (~geometry.is_convex /\ ~geometry.tessellation.present) =>
                      /\ Fills(q) = <<>>
                      /\ ~panicked
                      /\ rendered = Len(renderer[1].layer.primitives)
                      /\ \A r \in (q + 1)..(Len(renderer[1].layer.primitives) - 1) :
                            PrimitiveAt(r).kind # "Polygon" => Fills(r) # <<>>

\* the layer whose non-convex polygon has no tessellation is painted: the
\* polygon has no fill, the rectangle and the line after it are drawn
C14_Witness ==
    /\ LayerPainted
    /\ \E q \in PositionsOf("Polygon") :
          /\ ~PrimitiveAt(q).geometry.is_convex
          /\ ~PrimitiveAt(q).geometry.tessellation.present
          /\ PrimitiveAt(q).geometry.relative_vertices # <<>>
          /\ Fills(q) = <<>>
          /\ PrimitiveAt(q + 1).kind = "Rectangle" /\ Fills(q + 1) # <<>>
          /\ PrimitiveAt(q + 2).kind = "Line" /\ Len(Fills(q + 2)) = 3

\* the strokes of the primitive at a position: its shapes but the bounding-box
\* outline and the numbers
Strokes(position) ==
    SelectSeq(Keeping(Marked(renderer[1], painter), {"fill"}), LAMBDA e : e.shape = position)

\* C15: an arc is emitted as one stroked path with one screen point for each
\* point generate_points returns, in the order of generation, closed exactly
\* when is_full_circle() is true; render appends no closing point to the path
\* of a full circle.
C15_ArcPath ==
    LayerPainted =>
        \A q \in PositionsOf("Arc") :
            /\ Len(Strokes(q)) = 1
            /\ Strokes(q)[1].draw = ShapesOf(q)[1].draw
            /\ Strokes(q)[1].draw.op = "path"
            /\ Len(Strokes(q)[1].draw.points) = Len(GeneratePoints(PrimitiveAt(q)))
            /\ Strokes(q)[1].draw.points
                  = OffsetsToScreen(renderer[1], PrimitiveAt(q).center,
                                    GeneratePoints(PrimitiveAt(q)))
            /\ Strokes(q)[1].draw.closed = IsFullCircle(PrimitiveAt(q))

\* an arc that sweeps a full turn is painted, with its bounding-box outline, as
\* one closed path of as many points as were generated
C15_Witness ==
    /\ LayerPainted
    /\ renderer[1].configuration.use_shape_bboxes
    /\ \E q \in PositionsOf("Arc") :
          /\ IsFullCircle(PrimitiveAt(q))
          /\ PrimitiveAt(q).radius > 0
          /\ Len(GeneratePoints(PrimitiveAt(q))) = 5
          /\ Strokes(q)[1].draw.closed
          /\ Len(Strokes(q)[1].draw.points) = 5

\* C16: the values derived from the composed matrix (the scale factors, the
\* axis-alignment flag, the 90/270 degree flag) are computed once for a
\* GerberRenderer and handed to every primitive's render call: painting a layer
\* of n primitives computes none of them in a render call, shape by shape.
C16_DerivedOnce ==
    LayerPainted =>
        /\ "get_scaling_factors" \in DerivedInNew
        /\ \A q \in 0..(rendered - 1) :
              DerivedInRender(PrimitiveAt(q), renderer[1].transform_matrix) = {}

\* the screen region of a rect shape, and the region the four corners of a
\* rectangle cover when each goes through the general path
RectRegion(draw) == BoundingBox(draw.points[1], VecAdd(draw.points[1], draw.extent))
CornersRegion(self, rectangle) ==
    FromPoints([i \in 1..4 |-> DocumentToScreen(self, RectangleCorners(rectangle)[i])])

\* C17: under every axis-aligned composed matrix (a rotation of 0, 90, 180 or
\* 270 degrees, any mirroring, scale factors that may differ between X and Y)
\* the rect of the fast path covers the same screen region as the four corners
\* of the rectangle transformed one by one by the general path.
C17_FastPathCovers ==
    LayerPainted =>
        \A q \in PositionsOf("Rectangle") :
            IsAxisAligned(Composed) =>
                /\ Fills(q)[1].draw.op = "rect"
                /\ RectRegion(Fills(q)[1].draw) = CornersRegion(renderer[1], PrimitiveAt(q))

\* C18: within one frame of ui the red and the green bounding-box outline and
\* the primitives of the layer are mapped to the screen with the same ViewState:
\* the view state that converted the outlines' vertices is the one the renderer
\* paints with, after the frame's fit_view and pan and zoom handling.
C18_OutlinesInView ==
    \A k \in Kinds :
        frame[k].shown =>
            /\ frame[k].outline_view = frame[k].renderer[1].view
            /\ frame[k].outline_vertices_screen
                  = ScreenVertices(frame[k].renderer[1].view,
                                   OutlineVertices(LayerBoundingBox(frame[k].renderer[1].layer),
                                                   frame[k].outline_matrix))
            /\ frame[k].bbox_vertices_screen
                  = ScreenVertices(frame[k].renderer[1].view, Vertices(frame[k].red_bbox))

\* the view states the pan and zoom handling of one frame can make of a view
\* state
PannedOrZoomed(view_state, viewport) ==
    {UiStateUpdate(view_state, viewport, drag, zoom).view_state :
        drag \in Drags \cup {<<0, 0>>}, zoom \in Zooms \cup {1}}

\* C19: needs_view_fitting is true after an instance is created and after every
\* reparse; fit_view runs in the first ui frame that follows and clears the
\* flag; fit_view runs in no frame that starts with the flag clear, so between
\* two reparses the view is fitted once, and the view state the user panned or
\* zoomed after the fit is what the next frame starts from, no automatic fit
\* replacing it.
C19_FittedOnce ==
    /\ \A k \in Kinds : instances[k] # None => instances[k][1].needs_view_fitting
    /\ [][~panicked' =>
            \A k \in Kinds :
                /\ instances'[k] # None =>
                      (instances'[k][1].needs_view_fitting <=> frame'[k].reparsed)
                /\ frame'[k].shown =>
                      /\ frame'[k].fitted
                            <=> (frame'[k].created \/ instances[k][1].needs_view_fitting)
                      /\ frame'[k].created => NewInstance(demos[k]).instance.needs_view_fitting
                      /\ (~frame'[k].fitted /\ instances'[k] # None) =>
                            instances'[k][1].view_state
                                \in PannedOrZoomed(instances[k][1].view_state, Viewport(k))]_vars

\* the primary window, fitted in an earlier frame and panned and zoomed since,
\* has run a frame without input: the view state is the one the frame began
\* with, not the one a fit would give
C19_Witness ==
    /\ instances["Primary"] # None
    /\ frame["Primary"].shown
    /\ ~frame["Primary"].fitted
    /\ ~instances["Primary"][1].needs_view_fitting
    /\ instances["Primary"][1].view_state = frame["Primary"].outline_view
    /\ instances["Primary"][1].view_state
          # FitView(instances["Primary"][1], Viewport("Primary")).instance.view_state
    /\ instances["Primary"][1].view_state.scale
          = 2 * FitView(instances["Primary"][1], Viewport("Primary")).instance.view_state.scale

\* C20: at the end of every DemoApp::update focussed_demo_kind is None or the
\* kind of an instance that is open then; it is None whenever no instance is
\* open, and also when the focussed instance was closed in that frame, by the
\* toggle of the demo list or by the close button of its window.
C20_FocusOpen ==
    /\ focussed_demo_kind # NoKind =>
          /\ focussed_demo_kind \in Kinds
          /\ instances[focussed_demo_kind] # None
    /\ (\A k \in Kinds : instances[k] = None) => focussed_demo_kind = NoKind

\* the primary window ran its frame and was closed by its close button while
\* the playground window stays open: nothing is focussed
C20_Witness ==
    /\ frame["Primary"].shown
    /\ instances["Primary"] = None
    /\ instances["Playground"] # None
    /\ frame["Playground"].shown
    /\ focussed_demo_kind = NoKind
    /\ demos["Primary"].source # InitialSource("Primary")

\* C21: every reparse request is consumed in the update in which it is made.
\* At the end of every update reparse_requested is false for every demo; a
\* request whose demo has an open instance at that point rebuilds the layer
\* exactly once, from the demo's current source; a request whose demo has no
\* instance is dropped, no instance is created for it, and an update without
\* a request, such as the one that opens the demo later, calls no reparse and
\* leaves the layer as GerberViewerInstance::new or the frame before built it.
C21_RequestsConsumed ==
    /\ \A k \in Kinds : ~demos[k].reparse_requested
    /\ [][~panicked' =>
            \A k \in Kinds :
                /\ ~demos'[k].reparse_requested
                /\ handled'[k].calls = 1 <=> (handled'[k].requested /\ instances'[k] # None)
                /\ handled'[k].calls = 0 <=> ~(handled'[k].requested /\ instances'[k] # None)
                /\ (handled'[k].requested /\ instances'[k] # None) =>
                      /\ instances[k] # None
                      /\ instances'[k][1].gerber_layer = BuildLayer(demos'[k].source).layer
                /\ (handled'[k].requested /\ instances[k] = None) => instances'[k] = None
                /\ (~handled'[k].requested /\ instances'[k] # None) =>
                      instances'[k][1].gerber_layer =
                          IF instances[k] # None THEN instances[k][1].gerber_layer
                          ELSE BuildLayer(demos[k].source).layer]_vars

\* the request for the primary demo, its source edited, was made in the update
\* that closed the primary window: it was dropped and nothing is pending
C21_Witness ==
    /\ handled["Primary"].requested
    /\ handled["Primary"].calls = 0
    /\ instances["Primary"] = None
    /\ demos["Primary"].source # InitialSource("Primary")
    /\ ~demos["Primary"].reparse_requested

\* what one frame of its window can make of an instance
FrameResults(self, k) ==
    {InstanceUi(self, delta, Viewport(k), drag, zoom).instance :
        delta \in FrameDeltas, drag \in Drags \cup {<<0, 0>>}, zoom \in Zooms \cup {1}}

\* C22: reparse replaces only the instance's gerber_layer and sets
\* needs_view_fitting.  In an update that reparses an instance, the instance
\* at the end is the one its frame left, with the layer built from the demo's
\* source and the flag set: the settings and the renderer configuration are
\* those from before the update, the transform is the one the frame's animation
\* left (the rotation it has accumulated, nothing else changed), the ui_state
\* is the frame's, and the view_state is the one the frame painted with, which
\* stays until the fit_view of the next frame.
C22_ReparseKeeps ==
    [][~panicked' =>
          \A k \in Kinds :
              frame'[k].reparsed =>
                  /\ instances[k] # None
                  /\ instances'[k] # None
                  /\ \E left \in FrameResults(instances[k][1], k) :
                        instances'[k][1]
                            = [left EXCEPT !.gerber_layer = BuildLayer(demos'[k].source).layer,
                                           !.needs_view_fitting = TRUE]
                  /\ instances'[k][1].settings = instances[k][1].settings
                  /\ instances'[k][1].renderer_configuration
                        = instances[k][1].renderer_configuration
                  /\ \E delta \in FrameDeltas :
                        instances'[k][1].transform
                            = [instances[k][1].transform EXCEPT
                                  !.rotation = Rotated(@, instances[k][1].settings.rotation_speed
                                                            * delta)]
                  /\ instances'[k][1].view_state = frame'[k].renderer[1].view
                  /\ ~frame'[k].fitted =>
                        instances'[k][1].view_state
                            \in PannedOrZoomed(instances[k][1].view_state, Viewport(k))]_vars

\* the primary instance, its rotation advanced by the animation and its view
\* zoomed by the user, was reparsed from an edited source in a frame that
\* painted the layer it had before: the rotation and the view are still there
C22_Witness ==
    /\ instances["Primary"] # None
    /\ frame["Primary"].reparsed
    /\ ~frame["Primary"].fitted
    /\ instances["Primary"][1].needs_view_fitting
    /\ instances["Primary"][1].gerber_layer = BuildLayer("edited.gbr").layer
    /\ frame["Primary"].renderer[1].layer = BuildLayer("demo.gbr").layer
    /\ instances["Primary"][1].transform.rotation
          # instances["Primary"][1].settings.initial_rotation
    /\ instances["Primary"][1].view_state = frame["Primary"].outline_view
    /\ instances["Primary"][1].view_state # DefaultViewState
    /\ instances["Primary"][1].view_state
          # FitView([instances["Primary"][1] EXCEPT
                        !.gerber_layer = frame["Primary"].renderer[1].layer],
                    Viewport("Primary")).instance.view_state

=============================================================================
